---- MODULE Spec2Model ----
(***************************************************************************)
(* Credit ledger of the universal-ai-platform.                             *)
(*                                                                         *)
(* Two credit stores exist in the repository:                              *)
(*   - billing/credit_manager.py  LocalCreditManager: SQLAlchemy sessions  *)
(*     on the PostgreSQL tables users/credit_transactions (models.py).     *)
(*     The engine is created with the default isolation level, READ        *)
(*     COMMITTED: a session SELECTs the user row, computes the new         *)
(*     balance in Python, and at commit() flushes                          *)
(*     UPDATE users SET credit_balance = <value> and the INSERT.           *)
(*   - payment/mtn_payment.py  CreditManager: sqlite3 connections on       *)
(*     credits.db (tables users/credit_transactions).                      *)
(*                                                                         *)
(* A call of a manager method is a process (a slot of `calls`) whose steps *)
(* are the database round trips of the method.                             *)
(***************************************************************************)
EXTENDS Integers, Sequences, FiniteSets, TLC

\* ------------------------------------------------------------------ bounds
MaxCalls == 3        \* method calls in one behaviour
MaxClock == 1        \* second boundaries the clock can pass

CallIds == 1..MaxCalls
Amounts == {1, 2}
UserIds == {"u1", "u2"}
\* external references of payments (transaction ids handed to add_credits)
PayRefs == {<<"pay", 1>>, <<"pay", 2>>}
NoRef == <<"none", 0>>
Descriptions == {"wfA", "wfB"}
Purchase == "Credit purchase"

\* ------------------------------------------------------------------- state
VARIABLES
    credit_balance,        \* users.credit_balance (PostgreSQL), per user row
    credit_transactions,   \* credit_transactions (PostgreSQL), in commit order
    sq_credits,            \* users.credits (credits.db), per existing user row
    sq_transactions,       \* credit_transactions (credits.db), in commit order
    sq_shared,             \* connections holding SQLite's SHARED lock
    sq_reserved,           \* the connection holding SQLite's RESERVED lock, if any
    clock,                 \* int(time.time())
    workflow_ctx,          \* MultiServiceTracker._workflow_<id> attributes (in memory)
    usage_records,         \* multi_service_usage_records (PostgreSQL), in commit order
    tracker_result,        \* what the latest MultiServiceTracker method call returned
    cost_breakdown,        \* what the latest direct pricing call returned
    api_keys,              \* api_keys (PostgreSQL), in commit order
    is_active,             \* users.is_active (PostgreSQL), per user row
    payments,              \* the gateway's side of each requested payment, by reference
    purchases,             \* the process_credit_purchase activations
    daily_usage,           \* FreemiumRateLimiter.daily_usage, per IP that has a key
    monthly_usage,         \* FreemiumRateLimiter.monthly_usage, per IP that has a key
    last_reset,            \* FreemiumRateLimiter.last_reset, per IP that has a key
    request_times,         \* FreemiumRateLimiter.request_times, per IP that has a key
    limiter_result,        \* what the latest is_allowed call returned
    free_allowed,          \* the free-tier requests that were answered allowed: IP and time
    active_sessions,       \* shared_state.active_sessions: the ids that have an entry
    message_queues,        \* shared_state.message_queues: the queue of each id
    handlers,              \* the request handlers of the session endpoints
    calls                  \* the method calls: position, arguments, locals, result

pgVars == <<credit_balance, credit_transactions>>
sqVars == <<sq_credits, sq_transactions, sq_shared, sq_reserved>>
wfVars == <<workflow_ctx, usage_records, tracker_result>>
priceVars == <<cost_breakdown>>
keyVars == <<api_keys>>
acctVars == <<is_active>>
payVars == <<payments, purchases>>
limiterVars == <<daily_usage, monthly_usage, last_reset, request_times, limiter_result,
                 free_allowed>>
sessionVars == <<active_sessions, message_queues, handlers>>
frontVars == <<limiterVars, sessionVars>>
\* the state outside the two credit stores
nonCreditVars == <<wfVars, priceVars, keyVars, acctVars, payVars, frontVars>>
vars == <<credit_balance, credit_transactions, sq_credits, sq_transactions,
          sq_shared, sq_reserved, clock, workflow_ctx, usage_records,
          tracker_result, cost_breakdown, api_keys, is_active, payments,
          purchases, daily_usage, monthly_usage, last_reset, request_times,
          limiter_result, free_allowed, active_sessions, message_queues, handlers,
          calls>>

\* ------------------------------------------------------------ ledger rows
\* CreditTransaction(user_id, credits, transaction_id, description)
CreditTransaction(u, c, t, d) ==
    [user_id |-> u, credits |-> c, transaction_id |-> t, description |-> d]

RECURSIVE SumCredits(_, _)
\* sum of the credits column over the rows of user u
SumCredits(u, rows) ==
    IF rows = <<>> THEN 0
    ELSE (IF Head(rows).user_id = u THEN Head(rows).credits ELSE 0)
         + SumCredits(u, Tail(rows))

TransactionIds(rows) == {rows[i].transaction_id : i \in 1..Len(rows)}

RowsWith(rows, t) == {i \in 1..Len(rows) : rows[i].transaction_id = t}

\* ------------------------------------------------------------------ calls
IdleCall ==
    [op |-> "none", pc |-> "idle", user |-> "u1", credits |-> 0,
     txid |-> NoRef, desc |-> "", read |-> 0, wf |-> 0, key |-> 0,
     result |-> [success |-> FALSE, error |-> ""]]

Begin(p, op, u, c, t, d, pc, rd) ==
    [op |-> op, pc |-> pc, user |-> u, credits |-> c,
     txid |-> t, desc |-> d, read |-> rd, wf |-> 0, key |-> 0,
     result |-> [success |-> FALSE, error |-> ""]]

\* the call has returned: only its result is left
Return(p, res) ==
    [calls EXCEPT ![p] = [IdleCall EXCEPT !.op = calls[p].op, !.pc = "done", !.result = res]]

\* calls are started in slot order (the slots are interchangeable)
CanStart(p) ==
    /\ calls[p].pc = "idle"
    /\ \A q \in DOMAIN calls : q < p => calls[q].pc # "idle"

\* ------------------------------------------------- LocalCreditManager, grant
\* add_credits: session.query(User).filter_by(id=user_id).first()
Local_add_credits_select(p, u, c, t) ==
    /\ CanStart(p)
    /\ calls' = [calls EXCEPT ![p] =
                    Begin(p, "add_credits", u, c, t, Purchase, "commit", credit_balance[u])]
    /\ UNCHANGED <<pgVars, sqVars, clock, nonCreditVars>>

\* mutant: the unique index on transaction_id is missing
Local_add_credits_commit_no_unique(p) ==
    /\ calls[p].op = "add_credits" /\ calls[p].pc = "commit"
    /\ credit_balance' =
         [credit_balance EXCEPT ![calls[p].user] = calls[p].read + calls[p].credits]
    /\ credit_transactions' =
         Append(credit_transactions,
                CreditTransaction(calls[p].user, calls[p].credits, calls[p].txid, calls[p].desc))
    /\ calls' = Return(p, [success |-> TRUE, error |-> ""])
    /\ UNCHANGED <<sqVars, clock, nonCreditVars>>

\* add_credits: user.credit_balance = read + credits; session.add(row); commit().
\* The flush writes the absolute balance; the unique index on transaction_id
\* raises IntegrityError, the except branch rolls the session back.
Local_add_credits_commit(p) ==
    /\ calls[p].op = "add_credits" /\ calls[p].pc = "commit"
    /\ IF calls[p].txid \in TransactionIds(credit_transactions)
       THEN /\ UNCHANGED pgVars
            /\ calls' = Return(p, [success |-> FALSE, error |-> "rollback"])
       ELSE /\ credit_balance' =
                 [credit_balance EXCEPT ![calls[p].user] = calls[p].read + calls[p].credits]
            /\ credit_transactions' =
                 Append(credit_transactions,
                        CreditTransaction(calls[p].user, calls[p].credits,
                                          calls[p].txid, calls[p].desc))
            /\ calls' = Return(p, [success |-> TRUE, error |-> ""])
    /\ UNCHANGED <<sqVars, clock, nonCreditVars>>

\* ------------------------------------------------- LocalCreditManager, debit
\* mutant: the decline reports the two amounts in each other's place
InsufficientCredits_swapped(current, required) ==
    [success |-> FALSE, error |-> "insufficient_credits",
     current_credits |-> required, required_credits |-> current]

InsufficientCredits(current, required) ==
    [success |-> FALSE, error |-> "insufficient_credits",
     current_credits |-> current, required_credits |-> required]

Deducted(new_balance, credits) ==
    [success |-> TRUE, error |-> "", new_balance |-> new_balance, deducted |-> credits]

\* mutant: the balance check is missing
deduct_credits_select_unchecked(p, u, c, d, w) ==
    /\ calls' = [calls EXCEPT ![p] =
                    [Begin(p, "deduct_credits", u, c, NoRef, d, "commit", credit_balance[u])
                        EXCEPT !.wf = w]]
    /\ UNCHANGED <<pgVars, sqVars, clock, nonCreditVars>>

\* deduct_credits: the SELECT of the user row and the balance check.
\* `if current_balance < credits` returns the decline without touching the session.
deduct_credits_select(p, u, c, d, w) ==
    /\ LET current_balance == credit_balance[u] IN
       calls' = [calls EXCEPT ![p] =
                    IF current_balance < c
                    THEN [IdleCall EXCEPT !.op = "deduct_credits", !.pc = "done",
                                          !.result = InsufficientCredits(current_balance, c)]
                    ELSE [Begin(p, "deduct_credits", u, c, NoRef, d, "commit", current_balance)
                             EXCEPT !.wf = w]]
    /\ UNCHANGED <<pgVars, sqVars, clock, nonCreditVars>>

\* a caller invokes LocalCreditManager().deduct_credits(user_id, credits, description)
Local_deduct_credits_select(p, u, c, d) ==
    /\ CanStart(p)
    /\ deduct_credits_select(p, u, c, d, 0)

\* transaction_id=f"usage_{int(time.time())}"
UsageTransactionId(now) == <<"usage", now>>

\* mutant: the IntegrityError is swallowed after the balance was flushed
Local_deduct_credits_commit_no_unique(p) ==
    /\ calls[p].op = "deduct_credits" /\ calls[p].pc = "commit"
    /\ LET t == UsageTransactionId(clock)
           new_balance == calls[p].read - calls[p].credits IN
       /\ credit_balance' = [credit_balance EXCEPT ![calls[p].user] = new_balance]
       /\ credit_transactions' =
            Append(credit_transactions,
                   CreditTransaction(calls[p].user, 0 - calls[p].credits, t, calls[p].desc))
       /\ calls' = Return(p, Deducted(new_balance, calls[p].credits))
    /\ UNCHANGED <<sqVars, clock, nonCreditVars>>

\* deduct_credits: user.credit_balance = current_balance - credits; the row with
\* credits = -credits; commit(). An IntegrityError of the unique index on
\* transaction_id lands in `except Exception`: rollback, "Database error".
Local_deduct_credits_commit(p) ==
    /\ calls[p].op = "deduct_credits" /\ calls[p].pc = "commit"
    /\ LET t == UsageTransactionId(clock)
           new_balance == calls[p].read - calls[p].credits IN
       IF t \in TransactionIds(credit_transactions)
       THEN /\ UNCHANGED pgVars
            /\ calls' = Return(p, [success |-> FALSE, error |-> "Database error"])
       ELSE /\ credit_balance' = [credit_balance EXCEPT ![calls[p].user] = new_balance]
            /\ credit_transactions' =
                 Append(credit_transactions,
                        CreditTransaction(calls[p].user, 0 - calls[p].credits, t, calls[p].desc))
            /\ calls' = Return(p, Deducted(new_balance, calls[p].credits))
    /\ UNCHANGED <<sqVars, clock, nonCreditVars>>

\* ------------------------------------------------------ CreditManager (SQLite)
\* One sqlite3 connection per call. SQLite (rollback journal): a SELECT inside
\* BEGIN takes and keeps the SHARED lock; the first write takes RESERVED, which
\* one connection holds at a time and which fails at once with "database is
\* locked" when the holder is itself waiting for this reader; COMMIT takes
\* EXCLUSIVE and waits until no other connection holds SHARED.

\* get_user_credits: SELECT credits FROM users WHERE user_id = ?; 0 without a row
get_user_credits(u) == IF u \in DOMAIN sq_credits THEN sq_credits[u] ELSE 0

SetCredits(u, n) == [x \in DOMAIN sq_credits \cup {u} |-> IF x = u THEN n ELSE sq_credits[x]]

\* add_credits: BEGIN, the SELECT for an existing transaction_id (return True)
\* and the SELECT of the user row
CM_add_credits_begin(p, u, c, t) ==
    /\ IF t \in TransactionIds(sq_transactions)
       THEN /\ calls' = [calls EXCEPT ![p] =
                            [IdleCall EXCEPT !.op = "cm_add_credits", !.pc = "done",
                                             !.result = [success |-> TRUE, error |-> "existing"]]]
            /\ UNCHANGED sq_shared
       ELSE /\ calls' = [calls EXCEPT ![p] =
                            Begin(p, "cm_add_credits", u, c, t, Purchase, "write",
                                  get_user_credits(u))]
            /\ sq_shared' = sq_shared \cup {p}
    /\ UNCHANGED <<pgVars, sq_credits, sq_transactions, sq_reserved, clock>>

\* a caller invokes CreditManager().add_credits(user_id, credits, transaction_id)
CM_add_credits_select(p, u, c, t) ==
    /\ CanStart(p)
    /\ CM_add_credits_begin(p, u, c, t)
    /\ UNCHANGED nonCreditVars

\* add_credits: UPDATE users (or INSERT INTO users) and INSERT INTO
\* credit_transactions. sqlite3.OperationalError is caught by `except Exception`
\* (return False), the UNIQUE failure by `except sqlite3.IntegrityError` (return True).
CM_add_credits_write(p) ==
    /\ calls[p].op = "cm_add_credits" /\ calls[p].pc = "write"
    /\ IF sq_reserved # {}
       THEN /\ calls' = Return(p, [success |-> FALSE, error |-> "database is locked"])
            /\ sq_shared' = sq_shared \ {p}
            /\ UNCHANGED sq_reserved
       ELSE IF calls[p].txid \in TransactionIds(sq_transactions)
       THEN /\ calls' = Return(p, [success |-> TRUE, error |-> "UNIQUE constraint failed"])
            /\ sq_shared' = sq_shared \ {p}
            /\ UNCHANGED sq_reserved
       ELSE /\ calls' = [calls EXCEPT ![p].pc = "commit"]
            /\ sq_reserved' = {p}
            /\ UNCHANGED sq_shared
    /\ UNCHANGED <<pgVars, sq_credits, sq_transactions, clock, nonCreditVars>>

\* add_credits: conn.commit()
CM_add_credits_commit(p) ==
    /\ calls[p].op = "cm_add_credits" /\ calls[p].pc = "commit"
    /\ sq_shared \ {p} = {}
    /\ sq_credits' = SetCredits(calls[p].user, calls[p].read + calls[p].credits)
    /\ sq_transactions' =
         Append(sq_transactions,
                CreditTransaction(calls[p].user, calls[p].credits, calls[p].txid, calls[p].desc))
    /\ sq_shared' = {}
    /\ sq_reserved' = {}
    /\ calls' = Return(p, [success |-> TRUE, error |-> ""])
    /\ UNCHANGED <<pgVars, clock, nonCreditVars>>

\* deduct_credits: BEGIN on its connection, then self.get_user_credits(user_id),
\* which reads through a connection of its own; `current_credits >= credits`
CM_deduct_credits_read(p, u, c, d) ==
    /\ CanStart(p)
    /\ LET current_credits == get_user_credits(u) IN
       calls' = [calls EXCEPT ![p] =
                    IF current_credits >= c
                    THEN Begin(p, "cm_deduct_credits", u, c, NoRef, d, "write", current_credits)
                    ELSE [IdleCall EXCEPT !.op = "cm_deduct_credits", !.pc = "done",
                                          !.result = [success |-> FALSE,
                                                      error |-> "insufficient_credits"]]]
    /\ UNCHANGED <<pgVars, sqVars, clock, nonCreditVars>>

\* f"deduct_{user_id}_{int(datetime.now().timestamp())}_{uuid.uuid4().hex[:8]}":
\* the uuid part is taken to be fresh
DeductTransactionId(u, now, n) == <<"deduct", u, now, n>>

\* deduct_credits: UPDATE users SET credits = new_balance and the INSERT of the
\* usage row; the first write waits for the RESERVED lock
CM_deduct_credits_write(p) ==
    /\ calls[p].op = "cm_deduct_credits" /\ calls[p].pc = "write"
    /\ sq_reserved = {}
    /\ sq_reserved' = {p}
    /\ sq_shared' = sq_shared \cup {p}
    /\ calls' = [calls EXCEPT ![p].pc = "commit",
                              ![p].txid = DeductTransactionId(calls[p].user, clock,
                                                              Len(sq_transactions) + 1)]
    /\ UNCHANGED <<pgVars, sq_credits, sq_transactions, clock, nonCreditVars>>

\* deduct_credits: conn.commit()
CM_deduct_credits_commit(p) ==
    /\ calls[p].op = "cm_deduct_credits" /\ calls[p].pc = "commit"
    /\ sq_shared \ {p} = {}
    /\ sq_credits' = IF calls[p].user \in DOMAIN sq_credits
                     THEN SetCredits(calls[p].user, calls[p].read - calls[p].credits)
                     ELSE sq_credits
    /\ sq_transactions' =
         Append(sq_transactions,
                CreditTransaction(calls[p].user, 0 - calls[p].credits, calls[p].txid,
                                  calls[p].desc))
    /\ sq_shared' = {}
    /\ sq_reserved' = {}
    /\ calls' = Return(p, [success |-> TRUE, error |-> ""])
    /\ UNCHANGED <<pgVars, clock, nonCreditVars>>

\* the wall clock passes a second boundary
Tick ==
    /\ clock < MaxClock
    /\ clock' = clock + 1
    /\ UNCHANGED <<pgVars, sqVars, calls, nonCreditVars>>

\* ------------------------------------------------------------ ServicePricing
\* ServicePricing.PRICING: the rate key and the credits per unit of a
\* (service type, provider), as the fraction num/den; "none" when absent
PRICING(service_type, provider) ==
    CASE service_type = "gpt" /\ provider = "gpt-4o-mini" ->
            [key |-> "credits_per_1k_tokens", num |-> 1, den |-> 1]
      [] service_type = "gpt" /\ provider = "gpt-4o" ->
            [key |-> "credits_per_1k_tokens", num |-> 8, den |-> 1]
      [] service_type = "gpt" /\ provider = "gpt-4" ->
            [key |-> "credits_per_1k_tokens", num |-> 25, den |-> 1]
      [] service_type = "voice_tts" /\ provider = "cartesia" ->
            [key |-> "credits_per_char", num |-> 8, den |-> 10000]
      [] service_type = "voice_tts" /\ provider = "openai-tts" ->
            [key |-> "credits_per_char", num |-> 1, den |-> 1000]
      [] service_type = "voice_stt" /\ provider = "deepgram" ->
            [key |-> "credits_per_minute", num |-> 8, den |-> 1]
      [] service_type = "voice_stt" /\ provider = "openai-whisper" ->
            [key |-> "credits_per_minute", num |-> 10, den |-> 1]
      [] service_type = "vision" /\ provider = "gpt-4o-vision" ->
            [key |-> "credits_per_image", num |-> 40, den |-> 1]
      [] service_type = "vision" /\ provider = "gpt-4-vision" ->
            [key |-> "credits_per_image", num |-> 50, den |-> 1]
      [] service_type = "phone" /\ provider = "twilio" ->
            [key |-> "credits_per_minute", num |-> 20, den |-> 1]
      [] service_type = "phone" /\ provider = "twilio-intl" ->
            [key |-> "credits_per_minute", num |-> 35, den |-> 1]
      [] service_type = "realtime" /\ provider = "livekit" ->
            [key |-> "credits_per_minute", num |-> 12, den |-> 1]
      [] service_type = "realtime" /\ provider = "livekit-egress" ->
            [key |-> "credits_per_minute", num |-> 15, den |-> 1]
      [] OTHER -> [key |-> "none", num |-> 0, den |-> 1]

\* mutant: the floor of one credit is missing
Max_unfloored(a, b) == b

Max(a, b) == IF a >= b THEN a ELSE b

\* The token branch computes (units / 1000) * rate in IEEE-754 doubles, and
\* int() truncates. Where units * rate / 1000 is no integer the truncation is
\* its floor (the rounding error is far below 1/1000). Where it is an integer
\* the rounded quotient units / 1000 can lie below the true one and carry the
\* product below the integer: for units up to 5000 and the rates 1, 2, 8, 12
\* and 25 of the two pricing tables this happens at rate 25 for these units
\* (1160 / 1000 * 25 evaluates to 28.999999999999996).
DoubleBelowExact(units, rate) ==
    rate = 25 /\ units \in {1160, 2280, 2320, 4520, 4560, 4600, 4640}

\* int((units / 1000) * rate)
IntPer1k(units, rate) ==
    ((units * rate) \div 1000) - (IF DoubleBelowExact(units, rate) THEN 1 ELSE 0)

\* mutant: the default rate is one credit per unit
DefaultCredits_per_unit(units) == Max(1, units)

\* max(1, units // 100): one credit per 100 units
DefaultCredits(units) == Max(1, units \div 100)

\* mutant: a unit kind the rate is not for falls back to the default rate
calculate_service_cost_default_rate(service_type, provider, units, unit_type) ==
    LET pricing == PRICING(service_type, provider) IN
    IF pricing.key = "none" THEN DefaultCredits(units)
    ELSE IF unit_type = "tokens" /\ pricing.key = "credits_per_1k_tokens"
         THEN Max(1, IntPer1k(units, pricing.num))
    ELSE IF unit_type = "characters" /\ pricing.key = "credits_per_char"
         THEN Max(1, (units * pricing.num) \div pricing.den)
    ELSE IF unit_type = "minutes" /\ pricing.key = "credits_per_minute"
         THEN Max(1, (units * pricing.num) \div pricing.den)
    ELSE IF unit_type = "images" /\ pricing.key = "credits_per_image"
         THEN Max(1, units * pricing.num)
    ELSE DefaultCredits(units)

\* ServicePricing.calculate_service_cost, the credits_used of its result.
\* int(units * rate) of the character and minute branches is the exact floor
\* for the rates of the table (the units are ints).
calculate_service_cost(service_type, provider, units, unit_type) ==
    LET pricing == PRICING(service_type, provider) IN
    IF pricing.key = "none" THEN DefaultCredits(units)
    ELSE IF unit_type = "tokens" /\ pricing.key = "credits_per_1k_tokens"
         THEN Max(1, IntPer1k(units, pricing.num))
    ELSE IF unit_type = "characters" /\ pricing.key = "credits_per_char"
         THEN Max(1, (units * pricing.num) \div pricing.den)
    ELSE IF unit_type = "minutes" /\ pricing.key = "credits_per_minute"
         THEN Max(1, (units * pricing.num) \div pricing.den)
    ELSE IF unit_type = "images" /\ pricing.key = "credits_per_image"
         THEN Max(1, units * pricing.num)
    ELSE Max(1, units)

\* ModelPricing.get_pricing: credits_per_1k of the model, of "default" otherwise
get_pricing(model) ==
    CASE model = "gpt-4o-mini" -> 1
      [] model = "gpt-4o" -> 8
      [] model = "gpt-4" -> 25
      [] model = "claude-3-sonnet" -> 12
      [] model = "claude-3-haiku" -> 1
      [] OTHER -> 2

\* ModelPricing.calculate_cost_and_credits, the credits_used of its result
calculate_cost_and_credits(model, input_tokens, output_tokens) ==
    LET total_tokens == input_tokens + output_tokens
    IN Max(1, IntPer1k(total_tokens, get_pricing(model)))

\* what a direct pricing call returns: the arguments and credits_used
CostBreakdown(fn, service_type, provider, units, unit_type, credits) ==
    [fn |-> fn, service_type |-> service_type, provider |-> provider, units |-> units,
     unit_type |-> unit_type, credits_used |-> credits]

NoCost == CostBreakdown("none", "", "", 0, "", 0)

\* --------------------------------------------------------- MultiServiceTracker
MaxWorkflows == 2    \* requests that open a workflow in one behaviour
MaxEntries == 2      \* usage entries recorded on one workflow

\* usage reported to add_service_usage: service type, provider, units, unit type
UsageInputs ==
    { <<"voice_stt", "openai-whisper", 1, "minutes">>,
      <<"gpt", "gpt-4o-mini", 5000, "tokens">>,
      <<"gpt", "gpt-4o-mini", 2000, "tokens">> }

WorkflowDescription == "Multi-service workflow"

RECURSIVE SumUsed(_)
\* sum(service["credits_used"] for service in services_used)
SumUsed(services) ==
    IF services = <<>> THEN 0 ELSE Head(services).credits_used + SumUsed(Tail(services))

RecordIds == {usage_records[i].id : i \in 1..Len(usage_records)}

Put(f, k, v) == [x \in DOMAIN f \cup {k} |-> IF x = k THEN v ELSE f[x]]
Drop(f, k) == [x \in DOMAIN f \ {k} |-> f[x]]

\* str(uuid.uuid4()): an id no workflow has had
NewWorkflowId == Cardinality(DOMAIN workflow_ctx \cup RecordIds) + 1

\* the workflow ids a caller may present, issued or not
WorkflowIds == 1..MaxWorkflows

\* what a tracker method returns; the keys a result lacks are left at 0
TrackerResult(method, w, success, error, credits, total, count) ==
    [method |-> method, workflow_id |-> w, success |-> success, error |-> error,
     credits_used |-> credits, total_credits_used |-> total, services_count |-> count]

NoResult == TrackerResult("none", 0, FALSE, "", 0, 0, 0)

\* mutant: the missing context goes unreported
WorkflowNotFound_swallowed(method, w) == TrackerResult(method, w, TRUE, "", 0, 0, 0)

\* return {"success": False, "error": "Workflow not found"}
WorkflowNotFound(method, w) == TrackerResult(method, w, FALSE, "Workflow not found", 0, 0, 0)

\* getattr(self, f"_workflow_{workflow_id}", None) on tracker object tr
Live(tr, w) == w \in DOMAIN workflow_ctx /\ workflow_ctx[w].tracker = tr

\* start_workflow_tracking on tracker object tr:
\* setattr(self, f"_workflow_{workflow_id}", workflow_context)
start_workflow_tracking(tr, u) ==
    /\ Cardinality(DOMAIN workflow_ctx \cup RecordIds) < MaxWorkflows
    /\ LET w == NewWorkflowId IN
       /\ workflow_ctx' = Put(workflow_ctx, w,
                               [tracker |-> tr, user_id |-> u, services_used |-> <<>>])
       /\ tracker_result' = TrackerResult("start_workflow_tracking", w, TRUE, "", 0, 0, 0)
    /\ UNCHANGED <<pgVars, sqVars, clock, frontVars, acctVars, payVars, usage_records, priceVars, keyVars>>

\* add_service_usage on tracker object tr: without a context "Workflow not
\* found"; else the usage is priced and appended to services_used, and the
\* result carries the credits of this entry (cost_breakdown["credits_used"])
add_service_usage(tr, w, usage) ==
    /\ IF ~Live(tr, w)
       THEN /\ tracker_result' = WorkflowNotFound("add_service_usage", w)
            /\ UNCHANGED workflow_ctx
       ELSE /\ Len(workflow_ctx[w].services_used) < MaxEntries
            /\ LET credits_used ==
                      calculate_service_cost(usage[1], usage[2], usage[3], usage[4])
                   service_usage ==
                      [service_type |-> usage[1], provider |-> usage[2],
                       units_consumed |-> usage[3], unit_type |-> usage[4],
                       credits_used |-> credits_used]
               IN /\ workflow_ctx' = [workflow_ctx EXCEPT ![w].services_used =
                                                             Append(@, service_usage)]
                  /\ tracker_result' = TrackerResult("add_service_usage", w, TRUE, "",
                                                     credits_used, 0, 0)
    /\ UNCHANGED <<pgVars, sqVars, clock, frontVars, acctVars, payVars, usage_records, priceVars, keyVars>>

\* mutant: delattr is missing, the context outlives the commit of the record
complete_workflow_no_delattr(tr, w) ==
    /\ IF ~Live(tr, w)
       THEN /\ tracker_result' = WorkflowNotFound("complete_workflow", w)
            /\ UNCHANGED <<workflow_ctx, usage_records>>
       ELSE LET workflow_context == workflow_ctx[w]
                total_credits == SumUsed(workflow_context.services_used)
            IN IF w \in RecordIds
               THEN /\ UNCHANGED <<usage_records, workflow_ctx>>
                    /\ tracker_result' =
                         TrackerResult("complete_workflow", w, FALSE, "IntegrityError", 0, 0, 0)
               ELSE \/ /\ usage_records' =
                            Append(usage_records,
                                   [id |-> w, user_id |-> workflow_context.user_id,
                                    services_used |-> workflow_context.services_used,
                                    total_credits_used |-> total_credits])
                       /\ UNCHANGED workflow_ctx
                       /\ tracker_result' =
                            TrackerResult("complete_workflow", w, TRUE, "", 0, total_credits,
                                          Len(workflow_context.services_used))
                    \/ /\ UNCHANGED <<usage_records, workflow_ctx>>
                       /\ tracker_result' =
                            TrackerResult("complete_workflow", w, FALSE, "OperationalError",
                                          0, 0, 0)
    /\ UNCHANGED <<pgVars, sqVars, clock, frontVars, acctVars, payVars, priceVars, keyVars>>

\* complete_workflow on tracker object tr: without a context "Workflow not
\* found"; else the totals, the INSERT of the MultiServiceUsageRecord with
\* id = workflow_id (primary key) and session.commit(), then delattr of the
\* context; an exception of the commit (the primary key taken, the database
\* not reachable) is rolled back and returned as error, the context stays.
complete_workflow(tr, w) ==
    /\ IF ~Live(tr, w)
       THEN /\ tracker_result' = WorkflowNotFound("complete_workflow", w)
            /\ UNCHANGED <<workflow_ctx, usage_records>>
       ELSE LET workflow_context == workflow_ctx[w]
                total_credits == SumUsed(workflow_context.services_used)
            IN IF w \in RecordIds
               THEN /\ UNCHANGED <<usage_records, workflow_ctx>>
                    /\ tracker_result' =
                         TrackerResult("complete_workflow", w, FALSE, "IntegrityError", 0, 0, 0)
               ELSE \/ /\ usage_records' =
                            Append(usage_records,
                                   [id |-> w, user_id |-> workflow_context.user_id,
                                    services_used |-> workflow_context.services_used,
                                    total_credits_used |-> total_credits])
                       /\ workflow_ctx' = Drop(workflow_ctx, w)
                       /\ tracker_result' =
                            TrackerResult("complete_workflow", w, TRUE, "", 0, total_credits,
                                          Len(workflow_context.services_used))
                    \/ /\ UNCHANGED <<usage_records, workflow_ctx>>
                       /\ tracker_result' =
                            TrackerResult("complete_workflow", w, FALSE, "OperationalError",
                                          0, 0, 0)
    /\ UNCHANGED <<pgVars, sqVars, clock, frontVars, acctVars, payVars, priceVars, keyVars>>

\* process_and_respond: multi_tracker = MultiServiceTracker() and
\* multi_tracker.start_workflow_tracking(...); the request's tracker object is p
process_and_respond_start(p, u) ==
    /\ CanStart(p)
    /\ start_workflow_tracking(p, u)
    /\ calls' = [calls EXCEPT ![p] =
                    [IdleCall EXCEPT !.op = "workflow", !.pc = "open", !.user = u,
                                     !.wf = NewWorkflowId]]

\* process_and_respond: multi_tracker.add_service_usage(workflow_id=workflow_id, ...)
process_and_respond_usage(p, usage) ==
    /\ calls[p].op = "workflow" /\ calls[p].pc = "open"
    /\ add_service_usage(p, calls[p].wf, usage)
    /\ UNCHANGED calls

\* process_and_respond: workflow_result = multi_tracker.complete_workflow(workflow_id);
\* with success the handler goes on with credits_to_deduct = total_credits_used
process_and_respond_complete(p) ==
    /\ calls[p].op = "workflow" /\ calls[p].pc = "open"
    /\ complete_workflow(p, calls[p].wf)
    /\ calls' = IF tracker_result'.success
                THEN [calls EXCEPT ![p].pc = "settled",
                                   ![p].credits = tracker_result'.total_credits_used]
                ELSE Return(p, [success |-> FALSE, error |-> tracker_result'.error])

\* process_and_respond: credit_manager.deduct_credits(user_id, credits_to_deduct,
\* description) after a successful complete_workflow
Settle_deduct_credits_select(p) ==
    /\ calls[p].op = "workflow" /\ calls[p].pc = "settled"
    /\ deduct_credits_select(p, calls[p].user, calls[p].credits, WorkflowDescription,
                             calls[p].wf)

\* ----------------------------------------------------------------- API keys
\* LocalCreditManager.minimum_credits_for_api_key
minimum_credits_for_api_key == 5000

\* APIKey(user_id=..., api_key=...): revoked defaults to False
APIKey(u) == [user_id |-> u, revoked |-> FALSE]

\* mutant: revoked keys are counted too
existing_keys_count_any(u) ==
    Cardinality({k \in 1..Len(api_keys) : api_keys[k].user_id = u})

\* session.query(APIKey).filter_by(user_id=user_id, revoked=False).count()
existing_keys_count(u) ==
    Cardinality({k \in 1..Len(api_keys) : api_keys[k].user_id = u /\ ~api_keys[k].revoked})

\* mutant: the first key needs more than the minimum
can_generate_api_key_strict(u) ==
    LET current_credits == credit_balance[u] IN
    IF existing_keys_count(u) = 0
    THEN [can_generate |-> current_credits > minimum_credits_for_api_key,
          current_credits |-> current_credits,
          required_credits |-> minimum_credits_for_api_key,
          deficit |-> Max(0, minimum_credits_for_api_key - current_credits),
          is_first_key |-> TRUE,
          success |-> FALSE, error |-> "Insufficient credits to generate API key"]
    ELSE [can_generate |-> current_credits > 0,
          current_credits |-> current_credits,
          required_credits |-> 1,
          deficit |-> Max(0, 1 - current_credits),
          is_first_key |-> FALSE,
          success |-> FALSE, error |-> "Insufficient credits to generate API key"]

\* LocalCreditManager.can_generate_api_key: the first key needs the minimum,
\* a further key a positive balance
can_generate_api_key(u) ==
    LET current_credits == credit_balance[u] IN
    IF existing_keys_count(u) = 0
    THEN [can_generate |-> current_credits >= minimum_credits_for_api_key,
          current_credits |-> current_credits,
          required_credits |-> minimum_credits_for_api_key,
          deficit |-> Max(0, minimum_credits_for_api_key - current_credits),
          is_first_key |-> TRUE,
          success |-> FALSE, error |-> "Insufficient credits to generate API key"]
    ELSE [can_generate |-> current_credits > 0,
          current_credits |-> current_credits,
          required_credits |-> 1,
          deficit |-> Max(0, 1 - current_credits),
          is_first_key |-> FALSE,
          success |-> FALSE, error |-> "Insufficient credits to generate API key"]

\* generate_api_key / create_api_key: credit_check = can_generate_api_key(user_id)
\* in a session of its own; without can_generate the 402 answer
generate_api_key_check(p, u) ==
    /\ CanStart(p)
    /\ LET credit_check == can_generate_api_key(u) IN
       calls' = [calls EXCEPT ![p] =
                    IF credit_check.can_generate
                    THEN [Begin(p, "generate_api_key", u, 0, NoRef, "", "commit",
                                credit_check.current_credits)
                             EXCEPT !.result = credit_check]
                    ELSE [IdleCall EXCEPT !.op = "generate_api_key", !.pc = "done",
                                          !.user = u, !.result = credit_check]]
    /\ UNCHANGED <<pgVars, sqVars, clock, frontVars, acctVars, payVars, wfVars, priceVars, keyVars>>

\* generate_api_key / create_api_key: session.add(APIKey(...)); session.commit()
generate_api_key_commit(p) ==
    /\ calls[p].op = "generate_api_key" /\ calls[p].pc = "commit"
    /\ api_keys' = Append(api_keys, APIKey(calls[p].user))
    /\ calls' = Return(p, [success |-> TRUE, error |-> ""])
    /\ UNCHANGED <<pgVars, sqVars, clock, frontVars, acctVars, payVars, wfVars, priceVars>>

\* mutant: the endpoint flips the flag
revoke_api_key_toggle(k) ==
    /\ IF k \in 1..Len(api_keys)
       THEN api_keys' = [api_keys EXCEPT ![k].revoked = ~@]
       ELSE UNCHANGED api_keys
    /\ UNCHANGED <<pgVars, sqVars, clock, frontVars, acctVars, payVars, wfVars, priceVars, calls>>

\* revoke_api_key: 404 without the row; else key.revoked = True; commit()
revoke_api_key(k) ==
    /\ IF k \in 1..Len(api_keys)
       THEN api_keys' = [api_keys EXCEPT ![k].revoked = TRUE]
       ELSE UNCHANGED api_keys
    /\ UNCHANGED <<pgVars, sqVars, clock, frontVars, acctVars, payVars, wfVars, priceVars, calls>>

\* ------------------------------------------------------ authorization gate
\* update_user by an admin: setattr(user, 'is_active', data['is_active']); commit()
update_user(u, active) ==
    /\ is_active' = [is_active EXCEPT ![u] = active]
    /\ UNCHANGED <<pgVars, sqVars, clock, frontVars, wfVars, priceVars, keyVars, payVars, calls>>

\* mutant: the key query has no revoked=False filter
verify_api_key_credits_any_key(k, estimated_credits) ==
    IF k \notin 1..Len(api_keys)
    THEN [valid |-> FALSE, error |-> "Invalid API key", user_id |-> "", amounts |-> <<>>]
    ELSE LET user == api_keys[k].user_id IN
         IF ~is_active[user]
         THEN [valid |-> FALSE, error |-> "User inactive", user_id |-> "", amounts |-> <<>>]
         ELSE LET current_credits == credit_balance[user] IN
              [valid |-> current_credits >= estimated_credits, error |-> "",
               user_id |-> user, amounts |-> <<current_credits, estimated_credits>>]

\* LocalCreditManager.verify_api_key_credits: the key row with revoked=False,
\* the user row, and valid = current_credits >= estimated_credits; `amounts` is
\* <<current_credits, credits_needed>>, keys the two error dicts do not have
verify_api_key_credits(k, estimated_credits) ==
    IF k \notin 1..Len(api_keys) \/ api_keys[k].revoked
    THEN [valid |-> FALSE, error |-> "Invalid API key", user_id |-> "", amounts |-> <<>>]
    ELSE LET user == api_keys[k].user_id IN
         IF ~is_active[user]
         THEN [valid |-> FALSE, error |-> "User inactive", user_id |-> "", amounts |-> <<>>]
         ELSE LET current_credits == credit_balance[user] IN
              [valid |-> current_credits >= estimated_credits, error |-> "",
               user_id |-> user, amounts |-> <<current_credits, estimated_credits>>]

\* the 401 and 402 answers of the decorator
GateAnswer(status, error_code, current_credits, credits_needed) ==
    [success |-> FALSE, error |-> error_code, status |-> status,
     current_credits |-> current_credits, credits_needed |-> credits_needed]

\* check_api_key_and_credits(estimated_tokens) around a service endpoint; key 0
\* stands for a header that carries no `nexus_` key. 401 for an invalid key,
\* 402 for every other decline with credit_check.get('current_credits', 0) and
\* credit_check.get('credits_needed', 1); else the endpoint runs with
\* request.credit_info = credit_check. `key` and `credits` keep the key the request presented and the
\* estimate of its route.
check_api_key_and_credits(p, k, estimated_tokens) ==
    /\ CanStart(p)
    /\ LET credit_check == verify_api_key_credits(k, estimated_tokens) IN
       calls' = [calls EXCEPT ![p] =
          IF k = 0
          THEN [IdleCall EXCEPT !.op = "service_endpoint", !.pc = "done", !.key = k,
                                !.credits = estimated_tokens,
                                !.result = GateAnswer(401, "Invalid API key format", 0, 0)]
          ELSE IF ~credit_check.valid
          THEN [IdleCall EXCEPT !.op = "service_endpoint", !.pc = "done", !.key = k,
                                !.credits = estimated_tokens,
                   !.result =
                      IF credit_check.error = "Invalid API key"
                      THEN GateAnswer(401, "invalid_api_key", 0, 0)
                      ELSE GateAnswer(402, "insufficient_credits",
                                      IF credit_check.amounts = <<>>
                                      THEN 0 ELSE credit_check.amounts[1],
                                      IF credit_check.amounts = <<>>
                                      THEN 1 ELSE credit_check.amounts[2])]
          ELSE [IdleCall EXCEPT !.op = "service_endpoint", !.pc = "admitted", !.key = k,
                                !.user = credit_check.user_id,
                                !.credits = estimated_tokens]]
    /\ UNCHANGED <<pgVars, sqVars, clock, nonCreditVars>>

\* send_message behind the gate: process_and_respond opens its workflow for
\* request.credit_info['user_id']
send_message_start(p) ==
    /\ calls[p].op = "service_endpoint" /\ calls[p].pc = "admitted"
    /\ calls[p].credits = 150
    /\ start_workflow_tracking(p, calls[p].user)
    /\ calls' = [calls EXCEPT ![p] =
                    [IdleCall EXCEPT !.op = "workflow", !.pc = "open",
                                     !.user = calls[p].user, !.wf = NewWorkflowId]]

\* ---------------------------------------------------------------- payments
MaxPurchases == 2    \* process_credit_purchase activations in one behaviour

PurchaseIds == 1..MaxPurchases

\* get_credit_packages(): "credit_rate": 1000, "minimum_purchase": 5.00
credit_rate == 1000
minimum_purchase == 5
\* process_credit_purchase: max_wait_time = 60, poll_interval = 5
max_wait_time == 60
poll_interval == 5

\* reference_id = str(uuid.uuid4()) of activation q; result.transaction_id is
\* the X-Reference-Id the request was sent with
ReferenceOf(q) == <<"pay", q>>

\* the gateway has no payment before it accepted a request
NoPayments ==
    [q \in PurchaseIds |-> [status |-> "none", webhook |-> ""]]

IdlePurchase ==
    [pc |-> "idle", user |-> "u1", amount |-> 0, credits_to_add |-> 0,
     elapsed_time |-> 0, checks |-> 0, status |-> "",
     result |-> [success |-> FALSE, error |-> ""]]

NoPurchases == [q \in PurchaseIds |-> IdlePurchase]

\* process_credit_purchase returns
PurchaseReturn(q, res) ==
    [purchases EXCEPT ![q].pc = "done", ![q].result = res]

\* check_payment_status: the gateway's status in lower case with HTTP 200,
\* "failed" without an access token, "unknown" with another HTTP status,
\* "error" with an exception
StatusResults(q) == {payments[q].status, "failed", "unknown", "error"}

\* mutant: the amount is not compared with the minimum
process_credit_purchase_request_any_amount(q, u, amount, accepted) ==
    /\ purchases[q].pc = "idle"
    /\ \A r \in PurchaseIds : r < q => purchases[r].pc # "idle"
    /\ calls[q].pc = "idle"
    /\ LET credits_to_add == amount * credit_rate
           begun == [IdlePurchase EXCEPT !.user = u, !.amount = amount,
                                         !.credits_to_add = credits_to_add] IN
       IF ~accepted
       THEN /\ purchases' = [purchases EXCEPT ![q] =
                               [begun EXCEPT !.pc = "done",
                                             !.result = [success |-> FALSE,
                                                         error |-> "Payment request failed"]]]
            /\ UNCHANGED payments
       ELSE /\ purchases' = [purchases EXCEPT ![q] = [begun EXCEPT !.pc = "poll"]]
            /\ payments' = [payments EXCEPT ![q].status = "pending"]
    /\ UNCHANGED <<pgVars, sqVars, clock, frontVars, wfVars, priceVars, keyVars, acctVars, calls>>

\* process_credit_purchase up to the answer of request_payment_custom: below
\* the minimum the gateway is not asked; HTTP 202 makes the payment pending at
\* the gateway and starts the polling; anything else is returned as failure
process_credit_purchase_request(q, u, amount, accepted) ==
    /\ purchases[q].pc = "idle"
    /\ \A r \in PurchaseIds : r < q => purchases[r].pc # "idle"
    /\ calls[q].pc = "idle"
    /\ LET credits_to_add == amount * credit_rate
           begun == [IdlePurchase EXCEPT !.user = u, !.amount = amount,
                                         !.credits_to_add = credits_to_add] IN
       IF amount < minimum_purchase
       THEN /\ purchases' = [purchases EXCEPT ![q] =
                               [begun EXCEPT !.pc = "done",
                                             !.result = [success |-> FALSE,
                                                         error |-> "Minimum purchase"]]]
            /\ UNCHANGED payments
       ELSE IF ~accepted
       THEN /\ purchases' = [purchases EXCEPT ![q] =
                               [begun EXCEPT !.pc = "done",
                                             !.result = [success |-> FALSE,
                                                         error |-> "Payment request failed"]]]
            /\ UNCHANGED payments
       ELSE /\ purchases' = [purchases EXCEPT ![q] = [begun EXCEPT !.pc = "poll"]]
            /\ payments' = [payments EXCEPT ![q].status = "pending"]
    /\ UNCHANGED <<pgVars, sqVars, clock, frontVars, wfVars, priceVars, keyVars, acctVars, calls>>

\* mutant: the grant is made while the payment is still pending
process_credit_purchase_poll_eager(q, status) ==
    /\ purchases[q].pc = "poll"
    /\ purchases[q].elapsed_time < max_wait_time
    /\ status \in StatusResults(q)
    /\ LET polled == [purchases[q] EXCEPT !.elapsed_time = @ + poll_interval,
                                          !.checks = @ + 1, !.status = status] IN
       IF status \in {"successful", "pending"}
       THEN /\ purchases' = [purchases EXCEPT ![q] = [polled EXCEPT !.pc = "grant"]]
            /\ CM_add_credits_begin(q, purchases[q].user, purchases[q].credits_to_add,
                                    ReferenceOf(q))
       ELSE IF status = "failed"
       THEN /\ purchases' = [purchases EXCEPT ![q] =
                               [polled EXCEPT !.pc = "done",
                                              !.result =
                                                 [success |-> FALSE,
                                                  error |-> "Payment was declined or failed"]]]
            /\ UNCHANGED <<pgVars, sqVars, clock, calls>>
       ELSE /\ purchases' = [purchases EXCEPT ![q] = polled]
            /\ UNCHANGED <<pgVars, sqVars, clock, calls>>
    /\ UNCHANGED <<wfVars, priceVars, keyVars, acctVars, payments, frontVars>>

\* mutant: the loop runs while elapsed_time <= max_wait_time
process_credit_purchase_poll_once_more(q, status) ==
    /\ purchases[q].pc = "poll"
    /\ purchases[q].elapsed_time <= max_wait_time
    /\ status \in StatusResults(q)
    /\ LET polled == [purchases[q] EXCEPT !.elapsed_time = @ + poll_interval,
                                          !.checks = @ + 1, !.status = status] IN
       IF status = "successful"
       THEN /\ purchases' = [purchases EXCEPT ![q] = [polled EXCEPT !.pc = "grant"]]
            /\ CM_add_credits_begin(q, purchases[q].user, purchases[q].credits_to_add,
                                    ReferenceOf(q))
       ELSE IF status = "failed"
       THEN /\ purchases' = [purchases EXCEPT ![q] =
                               [polled EXCEPT !.pc = "done",
                                              !.result =
                                                 [success |-> FALSE,
                                                  error |-> "Payment was declined or failed"]]]
            /\ UNCHANGED <<pgVars, sqVars, clock, calls>>
       ELSE /\ purchases' = [purchases EXCEPT ![q] = polled]
            /\ UNCHANGED <<pgVars, sqVars, clock, calls>>
    /\ UNCHANGED <<wfVars, priceVars, keyVars, acctVars, payments, frontVars>>

\* one round of `while elapsed_time < max_wait_time`: sleep, elapsed_time +=
\* poll_interval, check_payment_status; "successful" goes on to
\* self.credit_manager.add_credits(user_id, credits_to_add, result.transaction_id),
\* "failed" returns the failure, every other status polls again
process_credit_purchase_poll(q, status) ==
    /\ purchases[q].pc = "poll"
    /\ purchases[q].elapsed_time < max_wait_time
    /\ status \in StatusResults(q)
    /\ LET polled == [purchases[q] EXCEPT !.elapsed_time = @ + poll_interval,
                                          !.checks = @ + 1, !.status = status] IN
       IF status = "successful"
       THEN /\ purchases' = [purchases EXCEPT ![q] = [polled EXCEPT !.pc = "grant"]]
            /\ CM_add_credits_begin(q, purchases[q].user, purchases[q].credits_to_add,
                                    ReferenceOf(q))
       ELSE IF status = "failed"
       THEN /\ purchases' = [purchases EXCEPT ![q] =
                               [polled EXCEPT !.pc = "done",
                                              !.result =
                                                 [success |-> FALSE,
                                                  error |-> "Payment was declined or failed"]]]
            /\ UNCHANGED <<pgVars, sqVars, clock, calls>>
       ELSE /\ purchases' = [purchases EXCEPT ![q] = polled]
            /\ UNCHANGED <<pgVars, sqVars, clock, calls>>
    /\ UNCHANGED <<wfVars, priceVars, keyVars, acctVars, payments, frontVars>>

\* the loop ends with elapsed_time >= max_wait_time: "Payment timeout"
process_credit_purchase_timeout(q) ==
    /\ purchases[q].pc = "poll"
    /\ purchases[q].elapsed_time >= max_wait_time
    /\ purchases' = PurchaseReturn(q, [success |-> FALSE, error |-> "Payment timeout"])
    /\ UNCHANGED <<pgVars, sqVars, clock, frontVars, wfVars, priceVars, keyVars, acctVars,
                   payments, calls>>

\* mutant: the answer of add_credits is not looked at
process_credit_purchase_return_unchecked(q) ==
    /\ purchases[q].pc = "grant"
    /\ calls[q].op = "cm_add_credits" /\ calls[q].pc = "done"
    /\ purchases' = PurchaseReturn(q, [success |-> TRUE, error |-> "",
                                       total_credits |-> get_user_credits(purchases[q].user)])
    /\ UNCHANGED <<pgVars, sqVars, clock, frontVars, wfVars, priceVars, keyVars, acctVars,
                   payments, calls>>

\* add_credits has returned: `if not credit_success` "Failed to allocate
\* credits", else final_balance = get_user_credits(user_id) and success
process_credit_purchase_return(q) ==
    /\ purchases[q].pc = "grant"
    /\ calls[q].op = "cm_add_credits" /\ calls[q].pc = "done"
    /\ LET credit_success == calls[q].result.success IN
       purchases' =
          IF ~credit_success
          THEN PurchaseReturn(q, [success |-> FALSE, error |-> "Failed to allocate credits"])
          ELSE PurchaseReturn(q, [success |-> TRUE, error |-> "",
                                  total_credits |-> get_user_credits(purchases[q].user)])
    /\ UNCHANGED <<pgVars, sqVars, clock, frontVars, wfVars, priceVars, keyVars, acctVars,
                   payments, calls>>

\* the gateway: the payer approves or rejects the pending request
Gateway_settle(q, status) ==
    /\ payments[q].status = "pending"
    /\ status \in {"successful", "failed"}
    /\ payments' = [payments EXCEPT ![q].status = status]
    /\ UNCHANGED <<pgVars, sqVars, clock, frontVars, wfVars, priceVars, keyVars, acctVars,
                   purchases, calls>>

\* mtn_webhook (payment_service): the gateway's callback for a settled payment
\* is posted on to the dashboard's /api/webhooks/mtn; no CreditManager is called.
\* The callback of a payment goes to one of the two webhook routes.
mtn_webhook(q) ==
    /\ payments[q].status \in {"successful", "failed"}
    /\ payments[q].webhook = ""
    /\ payments' = [payments EXCEPT ![q].webhook = "forwarded"]
    /\ UNCHANGED <<pgVars, sqVars, clock, frontVars, wfVars, priceVars, keyVars, acctVars,
                   purchases, calls>>

\* payment_endpoints: payment_processor.handle_webhook(provider, webhook_data)
\* for the gateway's callback; the provider is none of flutterwave, paystack
\* and mpesa, the answer is {"status": "unsupported_provider"}
handle_webhook(q) ==
    /\ payments[q].status \in {"successful", "failed"}
    /\ payments[q].webhook = ""
    /\ payments' = [payments EXCEPT ![q].webhook = "unsupported_provider"]
    /\ UNCHANGED <<pgVars, sqVars, clock, frontVars, wfVars, priceVars, keyVars, acctVars,
                   purchases, calls>>

\* create_agent, get_messages, get_session_status and delete_session behind
\* the gate: no tracker and no credit manager is called
service_endpoint_return(p) ==
    /\ calls[p].op = "service_endpoint" /\ calls[p].pc = "admitted"
    /\ calls[p].credits # 150
    /\ calls' = [calls EXCEPT ![p].pc = "done", ![p].result = [success |-> TRUE, error |-> ""]]
    /\ UNCHANGED <<pgVars, sqVars, clock, nonCreditVars>>

\* ------------------------------------------------------ FreemiumRateLimiter
DAILY_FREE_LIMIT == 50
MONTHLY_FREE_LIMIT == 1000
RATE_WINDOW == 60      \* seconds
RATE_LIMIT == 30       \* requests per window
OneDay == 86400        \* the seconds of one day of a timedelta

IPs == {"ip1", "ip2"}
MaxRequests == 3       \* is_allowed calls of one behaviour

\* defaultdict: the value of the key, the default of the factory without it
Get(f, k, default) == IF k \in DOMAIN f THEN f[k] ELSE default

\* (now - then).days
Days(now, then) == (now - then) \div OneDay

RECURSIVE Expire(_, _)
\* while request_times and current_time - request_times[0] > self.RATE_WINDOW:
\*     request_times.popleft()
Expire(times, current_time) ==
    IF times # <<>> /\ current_time - Head(times) > RATE_WINDOW
    THEN Expire(Tail(times), current_time)
    ELSE times

\* mutant: the window admits one request more
RateLimited_one_more(times) == Len(times) > RATE_LIMIT

\* len(request_times) >= self.RATE_LIMIT
RateLimited(times) == Len(times) >= RATE_LIMIT

\* what is_allowed returns: the tier, the limit_type and whether it allowed
LimiterAnswer(seq, ip, tier, limit_type, allowed) ==
    [seq |-> seq, ip |-> ip, tier |-> tier, limit_type |-> limit_type, allowed |-> allowed]

NoAnswer == LimiterAnswer(0, "", "", "", FALSE)

\* FreemiumRateLimiter(): the four defaultdicts are empty
NoLimiter ==
    /\ daily_usage = <<>>
    /\ monthly_usage = <<>>
    /\ last_reset = <<>>
    /\ request_times = <<>>
    /\ limiter_result = NoAnswer
    /\ free_allowed = <<>>

\* FreemiumRateLimiter.is_allowed(ip_address, api_key). A read of a defaultdict
\* inserts the key; the resets and the popleft happen before the checks.
is_allowed(ip, api_key) ==
    /\ limiter_result.seq < MaxRequests
    /\ LET seq == limiter_result.seq + 1 IN
       IF api_key
       THEN /\ limiter_result' = LimiterAnswer(seq, ip, "paid", "unlimited", TRUE)
            /\ UNCHANGED <<daily_usage, monthly_usage, last_reset, request_times,
                           free_allowed>>
       ELSE LET now == clock
                daily_due == Days(now, Get(last_reset, ip, now)) >= 1
                reset == IF daily_due THEN now ELSE Get(last_reset, ip, now)
                daily == IF daily_due THEN 0 ELSE Get(daily_usage, ip, 0)
                monthly_due == Days(now, reset) >= 30
                monthly == IF monthly_due THEN 0 ELSE Get(monthly_usage, ip, 0)
                times == Expire(Get(request_times, ip, <<>>), now)
            IN /\ last_reset' = Put(last_reset, ip, reset)
               /\ IF RateLimited(times)
                  THEN /\ limiter_result' = LimiterAnswer(seq, ip, "free", "rate_limit", FALSE)
                       /\ request_times' = Put(request_times, ip, times)
                       /\ daily_usage' = IF daily_due THEN Put(daily_usage, ip, 0)
                                         ELSE daily_usage
                       /\ monthly_usage' = IF monthly_due THEN Put(monthly_usage, ip, 0)
                                           ELSE monthly_usage
                       /\ UNCHANGED free_allowed
                  ELSE IF daily >= DAILY_FREE_LIMIT
                  THEN /\ limiter_result' = LimiterAnswer(seq, ip, "free", "daily_limit", FALSE)
                       /\ request_times' = Put(request_times, ip, times)
                       /\ daily_usage' = Put(daily_usage, ip, daily)
                       /\ monthly_usage' = Put(monthly_usage, ip, monthly)
                       /\ UNCHANGED free_allowed
                  ELSE IF monthly >= MONTHLY_FREE_LIMIT
                  THEN /\ limiter_result' =
                            LimiterAnswer(seq, ip, "free", "monthly_limit", FALSE)
                       /\ request_times' = Put(request_times, ip, times)
                       /\ daily_usage' = Put(daily_usage, ip, daily)
                       /\ monthly_usage' = Put(monthly_usage, ip, monthly)
                       /\ UNCHANGED free_allowed
                  ELSE /\ limiter_result' =
                            LimiterAnswer(seq, ip, "free", "within_limits", TRUE)
                       /\ request_times' = Put(request_times, ip, Append(times, now))
                       /\ daily_usage' = Put(daily_usage, ip, daily + 1)
                       /\ monthly_usage' = Put(monthly_usage, ip, monthly + 1)
                       /\ free_allowed' = Append(free_allowed, [ip |-> ip, at |-> now])
    /\ UNCHANGED <<pgVars, sqVars, clock, wfVars, priceVars, keyVars, acctVars, payVars,
                   sessionVars, calls>>

\* ------------------------------------------------------- session registries
MaxHandlers == 3     \* requests at the session endpoints in one behaviour
HandlerIds == 1..MaxHandlers

\* str(uuid.uuid4()): the id is the request's own, no other request has it
NewSessionId(h) == h

IdleHandler == [op |-> "none", pc |-> "idle", session_id |-> 0, status |-> 0]

\* the module is imported: both dicts are empty
NoSessions ==
    /\ active_sessions = {}
    /\ message_queues = <<>>
    /\ handlers = [h \in HandlerIds |-> IdleHandler]

\* the request of slot h arrives: the slots are taken in order
Arrives(h) ==
    /\ handlers[h].pc = "idle"
    /\ \A g \in HandlerIds : g < h => handlers[g].pc # "idle"

\* the handler goes on to its next statement
Goes(h, pc) == [handlers EXCEPT ![h].pc = pc]

\* the handler (or its thread) ends with the HTTP status
Ends(h, status) == [handlers EXCEPT ![h].pc = "done", ![h].status = status]

\* create_agent_session: session_id = str(uuid.uuid4());
\* active_sessions[session_id] = {...}
create_agent_session_store(h) ==
    /\ Arrives(h)
    /\ active_sessions' = active_sessions \cup {NewSessionId(h)}
    /\ handlers' = [handlers EXCEPT ![h] = [op |-> "create_agent_session", pc |-> "queue",
                                            session_id |-> NewSessionId(h), status |-> 0]]
    /\ UNCHANGED <<pgVars, sqVars, clock, wfVars, priceVars, keyVars, acctVars, payVars,
                   limiterVars, message_queues, calls>>

\* create_agent_session: message_queues[session_id] = queue.Queue(); return
create_agent_session_queue(h) ==
    /\ handlers[h].op = "create_agent_session" /\ handlers[h].pc = "queue"
    /\ message_queues' = Put(message_queues, handlers[h].session_id, <<>>)
    /\ handlers' = Ends(h, 200)
    /\ UNCHANGED <<pgVars, sqVars, clock, wfVars, priceVars, keyVars, acctVars, payVars,
                   limiterVars, active_sessions, calls>>

\* send_message (with message content, past the gate):
\* `if session_id not in active_sessions` returns 404
send_message_check(h, session_id) ==
    /\ Arrives(h)
    /\ handlers' = [handlers EXCEPT ![h] =
                       IF session_id \in active_sessions
                       THEN [op |-> "send_message", pc |-> "put",
                             session_id |-> session_id, status |-> 0]
                       ELSE [op |-> "send_message", pc |-> "done",
                             session_id |-> session_id, status |-> 404]]
    /\ UNCHANGED <<pgVars, sqVars, clock, wfVars, priceVars, keyVars, acctVars, payVars,
                   limiterVars, active_sessions, message_queues, calls>>

\* send_message: message_queues[session_id].put({... "sender": "user"}); a
\* KeyError lands in `except Exception`: 500
send_message_put(h) ==
    /\ handlers[h].op = "send_message" /\ handlers[h].pc = "put"
    /\ LET session_id == handlers[h].session_id IN
       IF session_id \in DOMAIN message_queues
       THEN /\ message_queues' = [message_queues EXCEPT ![session_id] = Append(@, "user")]
            /\ handlers' = Goes(h, "config")
       ELSE /\ UNCHANGED message_queues
            /\ handlers' = Ends(h, 500)
    /\ UNCHANGED <<pgVars, sqVars, clock, wfVars, priceVars, keyVars, acctVars, payVars,
                   limiterVars, active_sessions, calls>>

\* send_message: agent_config = active_sessions[session_id]["agent_config"],
\* the thread is started and the handler returns success
send_message_config(h) ==
    /\ handlers[h].op = "send_message" /\ handlers[h].pc = "config"
    /\ handlers' = IF handlers[h].session_id \in active_sessions
                   THEN [handlers EXCEPT ![h].pc = "respond", ![h].status = 200]
                   ELSE Ends(h, 500)
    /\ UNCHANGED <<pgVars, sqVars, clock, wfVars, priceVars, keyVars, acctVars, payVars,
                   limiterVars, active_sessions, message_queues, calls>>

\* process_and_respond in its thread: message_queues[session_id].put({...
\* "sender": "assistant"}); the KeyError is raised again by the put of the
\* except branch and ends the thread
send_message_respond(h) ==
    /\ handlers[h].op = "send_message" /\ handlers[h].pc = "respond"
    /\ LET session_id == handlers[h].session_id IN
       IF session_id \in DOMAIN message_queues
       THEN message_queues' = [message_queues EXCEPT ![session_id] = Append(@, "assistant")]
       ELSE UNCHANGED message_queues
    /\ handlers' = Goes(h, "done")
    /\ UNCHANGED <<pgVars, sqVars, clock, wfVars, priceVars, keyVars, acctVars, payVars,
                   limiterVars, active_sessions, calls>>

\* delete_session: `if session_id not in active_sessions` returns 404
delete_session_check(h, session_id) ==
    /\ Arrives(h)
    /\ handlers' = [handlers EXCEPT ![h] =
                       IF session_id \in active_sessions
                       THEN [op |-> "delete_session", pc |-> "config",
                             session_id |-> session_id, status |-> 0]
                       ELSE [op |-> "delete_session", pc |-> "done",
                             session_id |-> session_id, status |-> 404]]
    /\ UNCHANGED <<pgVars, sqVars, clock, wfVars, priceVars, keyVars, acctVars, payVars,
                   limiterVars, active_sessions, message_queues, calls>>

\* delete_session: agent_config = active_sessions[session_id]["agent_config"]
\* and asyncio.run(usage_tracker.track_session_end(...))
delete_session_config(h) ==
    /\ handlers[h].op = "delete_session" /\ handlers[h].pc = "config"
    /\ handlers' = IF handlers[h].session_id \in active_sessions
                   THEN Goes(h, "del_session")
                   ELSE Ends(h, 500)
    /\ UNCHANGED <<pgVars, sqVars, clock, wfVars, priceVars, keyVars, acctVars, payVars,
                   limiterVars, active_sessions, message_queues, calls>>

\* delete_session: del active_sessions[session_id]
delete_session_del_session(h) ==
    /\ handlers[h].op = "delete_session" /\ handlers[h].pc = "del_session"
    /\ IF handlers[h].session_id \in active_sessions
       THEN /\ active_sessions' = active_sessions \ {handlers[h].session_id}
            /\ handlers' = Goes(h, "del_queue")
       ELSE /\ UNCHANGED active_sessions
            /\ handlers' = Ends(h, 500)
    /\ UNCHANGED <<pgVars, sqVars, clock, wfVars, priceVars, keyVars, acctVars, payVars,
                   limiterVars, message_queues, calls>>

\* delete_session: `if session_id in message_queues: del message_queues[session_id]`
\* and the success answer
delete_session_del_queue(h) ==
    /\ handlers[h].op = "delete_session" /\ handlers[h].pc = "del_queue"
    /\ message_queues' = Drop(message_queues, handlers[h].session_id)
    /\ handlers' = Ends(h, 200)
    /\ UNCHANGED <<pgVars, sqVars, clock, wfVars, priceVars, keyVars, acctVars, payVars,
                   limiterVars, active_sessions, calls>>

\* ------------------------------------------------------------ specifications
LocalOps == {"add_credits", "deduct_credits"}
CMOps == {"cm_add_credits", "cm_deduct_credits"}

\* no call of these operations has been made
NoneOf(ops) == \A q \in DOMAIN calls : calls[q].op \notin ops

\* no call is between two of its database round trips
Quiet == \A q \in DOMAIN calls : calls[q].pc \in {"idle", "done"}

EmptyStores ==
    /\ credit_balance = [u \in UserIds |-> 0]
    /\ credit_transactions = <<>>
    /\ sq_credits = <<>>
    /\ sq_transactions = <<>>
    /\ sq_shared = {}
    /\ sq_reserved = {}
    /\ clock = 0
    /\ workflow_ctx = <<>>
    /\ usage_records = <<>>
    /\ tracker_result = NoResult
    /\ cost_breakdown = NoCost
    /\ api_keys = <<>>
    /\ is_active = [u \in UserIds |-> TRUE]
    /\ payments = NoPayments
    /\ purchases = NoPurchases
    /\ NoLimiter
    /\ NoSessions

Init ==
    /\ EmptyStores
    /\ calls = [p \in CallIds |-> IdleCall]

\* the first round trip of a grant or of a debit, of either manager; a
\* behaviour exercises one manager (the two stores share no state)
StartGrant(refs) ==
    \/ /\ NoneOf(CMOps)
       /\ \E p \in DOMAIN calls, u \in UserIds, c \in Amounts, t \in refs :
             Local_add_credits_select(p, u, c, t)
    \/ /\ NoneOf(LocalOps)
       /\ \E p \in DOMAIN calls, u \in UserIds, c \in Amounts, t \in refs :
             CM_add_credits_select(p, u, c, t)

StartDebit(descs) ==
    \/ /\ NoneOf(CMOps)
       /\ \E p \in DOMAIN calls, u \in UserIds, c \in Amounts, d \in descs :
             Local_deduct_credits_select(p, u, c, d)
    \/ /\ NoneOf(LocalOps)
       /\ \E p \in DOMAIN calls, u \in UserIds, c \in Amounts, d \in descs :
             CM_deduct_credits_read(p, u, c, d)

\* the later round trips of the calls in flight
StepGrant ==
    \/ \E p \in DOMAIN calls : Local_add_credits_commit(p)
    \/ \E p \in DOMAIN calls : CM_add_credits_write(p)
    \/ \E p \in DOMAIN calls : CM_add_credits_commit(p)

StepDebit ==
    \/ \E p \in DOMAIN calls : Local_deduct_credits_commit(p)
    \/ \E p \in DOMAIN calls : CM_deduct_credits_write(p)
    \/ \E p \in DOMAIN calls : CM_deduct_credits_commit(p)

\* concurrent callers: the calls interleave at their database round trips
Next ==
    \/ StartGrant(PayRefs)
    \/ StartDebit({"wfA"})
    \/ StepGrant
    \/ StepDebit
    \/ Tick

Spec == Init /\ [][Next]_vars

\* one caller at a time: a call starts when no other call is in flight
NextSeq ==
    \/ Quiet /\ StartGrant(PayRefs)
    \/ Quiet /\ StartDebit(Descriptions)
    \/ StepGrant
    \/ StepDebit
    \/ Tick

SpecSeq == Init /\ [][NextSeq]_vars

\* grants that all carry one external reference, delivered concurrently
\* (a duplicate webhook, or the poll and the webhook)
DupRef == <<"pay", 1>>

NextDup ==
    \/ StartGrant({DupRef})
    \/ StepGrant

SpecDup == Init /\ [][NextDup]_vars

\* ---------------------------------------------------- N concurrent debit(1)
NDebits == 6         \* concurrent debit(1) calls
StartBalance == 5    \* balance the debits run against

FirstGrant == CreditTransaction("u1", StartBalance, DupRef, Purchase)

InitDebits ==
    /\ credit_balance = [u \in UserIds |-> IF u = "u1" THEN StartBalance ELSE 0]
    /\ credit_transactions = <<FirstGrant>>
    /\ sq_credits = [u \in {"u1"} |-> StartBalance]
    /\ sq_transactions = <<FirstGrant>>
    /\ sq_shared = {}
    /\ sq_reserved = {}
    /\ clock = 0
    /\ workflow_ctx = <<>>
    /\ usage_records = <<>>
    /\ tracker_result = NoResult
    /\ cost_breakdown = NoCost
    /\ api_keys = <<>>
    /\ is_active = [u \in UserIds |-> TRUE]
    /\ payments = NoPayments
    /\ purchases = NoPurchases
    /\ NoLimiter
    /\ NoSessions
    /\ calls = [p \in 1..NDebits |-> IdleCall]

NextDebits ==
    \/ /\ NoneOf(CMOps)
       /\ \E p \in DOMAIN calls : Local_deduct_credits_select(p, "u1", 1, "wfA")
    \/ /\ NoneOf(LocalOps)
       /\ \E p \in DOMAIN calls : CM_deduct_credits_read(p, "u1", 1, "wfA")
    \/ StepDebit
    \/ Tick

SpecDebits == InitDebits /\ [][NextDebits]_vars

\* --------------------------------------------- requests that settle workflows
WorkflowBalance == 20    \* credits each account has bought before

InitWorkflow ==
    /\ credit_balance = [u \in UserIds |-> WorkflowBalance]
    /\ credit_transactions =
         <<CreditTransaction("u1", WorkflowBalance, <<"pay", 1>>, Purchase),
           CreditTransaction("u2", WorkflowBalance, <<"pay", 2>>, Purchase)>>
    /\ sq_credits = <<>>
    /\ sq_transactions = <<>>
    /\ sq_shared = {}
    /\ sq_reserved = {}
    /\ clock = 0
    /\ workflow_ctx = <<>>
    /\ usage_records = <<>>
    /\ tracker_result = NoResult
    /\ cost_breakdown = NoCost
    /\ api_keys = <<>>
    /\ is_active = [u \in UserIds |-> TRUE]
    /\ payments = NoPayments
    /\ purchases = NoPurchases
    /\ NoLimiter
    /\ NoSessions
    /\ calls = [p \in 1..MaxWorkflows |-> IdleCall]

StartWorkflow == \E p \in DOMAIN calls, u \in UserIds : process_and_respond_start(p, u)

StepWorkflow ==
    \/ \E p \in DOMAIN calls, usage \in UsageInputs : process_and_respond_usage(p, usage)
    \/ \E p \in DOMAIN calls : process_and_respond_complete(p)
    \/ \E p \in DOMAIN calls : Settle_deduct_credits_select(p)
    \/ \E p \in DOMAIN calls : Local_deduct_credits_commit(p)

\* concurrent requests
NextWorkflow ==
    \/ StartWorkflow
    \/ StepWorkflow
    \/ Tick

SpecWorkflow == InitWorkflow /\ [][NextWorkflow]_vars

\* one request at a time
NextWorkflowSeq ==
    \/ Quiet /\ StartWorkflow
    \/ StepWorkflow
    \/ Tick

SpecWorkflowSeq == InitWorkflow /\ [][NextWorkflowSeq]_vars

\* a request that opened its workflow goes on to complete_workflow and to the
\* debit; nothing in the repository runs besides the requests (no thread, no
\* scheduled job touches workflows)
WorkflowFairness ==
    \A p \in 1..MaxWorkflows :
        /\ WF_vars(process_and_respond_complete(p))
        /\ WF_vars(Settle_deduct_credits_select(p))
        /\ WF_vars(Local_deduct_credits_commit(p))

SpecWorkflowFair == InitWorkflow /\ [][NextWorkflow]_vars /\ WorkflowFairness

\* ------------------------------------------- callers of tracker objects
\* tracker objects shared by callers (WorkflowTemplates take the tracker as
\* an argument); a caller may present any workflow id to any tracker
Trackers == {1, 2}

NextTracker ==
    \/ \E tr \in Trackers, u \in UserIds :
          start_workflow_tracking(tr, u) /\ UNCHANGED calls
    \/ \E tr \in Trackers, w \in WorkflowIds, usage \in UsageInputs :
          add_service_usage(tr, w, usage) /\ UNCHANGED calls
    \/ \E tr \in Trackers, w \in WorkflowIds :
          complete_workflow(tr, w) /\ UNCHANGED calls

SpecTracker == Init /\ [][NextTracker]_vars

\* ------------------------------------------------------------ pricing calls
\* the (service type, provider) pairs of PRICING and pairs absent from it
PricingPairs ==
    { <<"gpt", "gpt-4o-mini">>, <<"gpt", "gpt-4o">>, <<"gpt", "gpt-4">>,
      <<"voice_tts", "cartesia">>, <<"voice_tts", "openai-tts">>,
      <<"voice_stt", "deepgram">>, <<"voice_stt", "openai-whisper">>,
      <<"vision", "gpt-4o-vision">>, <<"vision", "gpt-4-vision">>,
      <<"phone", "twilio">>, <<"phone", "twilio-intl">>,
      <<"realtime", "livekit">>, <<"realtime", "livekit-egress">>,
      <<"gpt", "unknown-model">>, <<"ocr", "tesseract">>, <<"embedding", "ada">> }
PricingUnits == {0, 1, 99, 100, 250, 1000, 1160, 1500, 2000}
UnitTypes == {"tokens", "characters", "minutes", "images", "units"}
Models == {"gpt-4o-mini", "gpt-4o", "gpt-4", "claude-3-sonnet", "claude-3-haiku",
           "unknown-model"}

\* the arguments of the pricing calls of a behaviour are drawn here
InitPricing ==
    /\ credit_balance = [u \in UserIds |-> 0]
    /\ credit_transactions = <<>>
    /\ sq_credits = <<>>
    /\ sq_transactions = <<>>
    /\ sq_shared = {}
    /\ sq_reserved = {}
    /\ clock = 0
    /\ workflow_ctx = <<>>
    /\ usage_records = <<>>
    /\ tracker_result = NoResult
    /\ \/ \E sp \in PricingPairs, units \in PricingUnits, unit_type \in UnitTypes :
             cost_breakdown = CostBreakdown("input", sp[1], sp[2], units, unit_type, 0)
       \/ \E model \in Models, total_tokens \in PricingUnits :
             cost_breakdown = CostBreakdown("model_input", "", model, total_tokens, "tokens", 0)
    /\ api_keys = <<>>
    /\ is_active = [u \in UserIds |-> TRUE]
    /\ payments = NoPayments
    /\ purchases = NoPurchases
    /\ NoLimiter
    /\ NoSessions
    /\ calls = [p \in CallIds |-> IdleCall]

\* a caller prices the usage: ServicePricing.calculate_service_cost(...)
ServicePricing_call ==
    /\ cost_breakdown.fn = "input"
    /\ cost_breakdown' =
         [cost_breakdown EXCEPT
             !.fn = "calculate_service_cost",
             !.credits_used = calculate_service_cost(cost_breakdown.service_type,
                                                     cost_breakdown.provider,
                                                     cost_breakdown.units,
                                                     cost_breakdown.unit_type)]
    /\ UNCHANGED <<pgVars, sqVars, clock, frontVars, acctVars, payVars, wfVars, keyVars, calls>>

\* a caller prices token usage:
\* ModelPricing.calculate_cost_and_credits(model, input_tokens, output_tokens)
ModelPricing_call ==
    /\ cost_breakdown.fn = "model_input"
    /\ \E input_tokens \in PricingUnits, output_tokens \in PricingUnits :
          /\ input_tokens + output_tokens = cost_breakdown.units
          /\ cost_breakdown' =
               [cost_breakdown EXCEPT
                   !.fn = "calculate_cost_and_credits",
                   !.credits_used = calculate_cost_and_credits(cost_breakdown.provider,
                                                               input_tokens, output_tokens)]
    /\ UNCHANGED <<pgVars, sqVars, clock, frontVars, acctVars, payVars, wfVars, keyVars, calls>>

\* the usage is reported on workflows of one tracker object, which prices it
NextPricing ==
    \/ ServicePricing_call
    \/ ModelPricing_call
    \/ start_workflow_tracking(1, "u1") /\ UNCHANGED calls
    \/ /\ cost_breakdown.fn \in {"input", "calculate_service_cost"}
       /\ \E w \in WorkflowIds :
             /\ Live(1, w)
             /\ add_service_usage(1, w, <<cost_breakdown.service_type, cost_breakdown.provider,
                                          cost_breakdown.units, cost_breakdown.unit_type>>)
       /\ UNCHANGED calls
    \/ \E w \in WorkflowIds : Live(1, w) /\ complete_workflow(1, w) /\ UNCHANGED calls

SpecPricing == InitPricing /\ [][NextPricing]_vars

\* ------------------------------------------------- key requests of an account
\* balances account u1 may hold when the behaviour starts
KeyBalances == {0, 1, 4999, 5000}
KeyIds == 1..(MaxCalls + 1)
FirstPurchase == <<"pay", 0>>
EarlierUsage == <<"usage", -1>>

\* the ledger of an account holding b credits: an account with a key row bought
\* the minimum and has used the rest, an account without one bought b credits
LedgerOf(b, keys) ==
    IF keys # <<>>
    THEN <<CreditTransaction("u1", minimum_credits_for_api_key, FirstPurchase, Purchase)>>
         \o (IF b < minimum_credits_for_api_key
             THEN <<CreditTransaction("u1", b - minimum_credits_for_api_key,
                                      EarlierUsage, "wfA")>>
             ELSE <<>>)
    ELSE IF b > 0 THEN <<CreditTransaction("u1", b, FirstPurchase, Purchase)>>
    ELSE <<>>

\* account u1 holds some balance and no key, one key, or one revoked key
InitKeys ==
    /\ \E b \in KeyBalances :
       \E keys \in {<<>>, <<APIKey("u1")>>, <<[APIKey("u1") EXCEPT !.revoked = TRUE]>>} :
          /\ credit_balance = [u \in UserIds |-> IF u = "u1" THEN b ELSE 0]
          /\ credit_transactions = LedgerOf(b, keys)
          /\ api_keys = keys
          /\ is_active = [u \in UserIds |-> TRUE]
          /\ payments = NoPayments
          /\ purchases = NoPurchases
          /\ NoLimiter
          /\ NoSessions
    /\ sq_credits = <<>>
    /\ sq_transactions = <<>>
    /\ sq_shared = {}
    /\ sq_reserved = {}
    /\ clock = 0
    /\ workflow_ctx = <<>>
    /\ usage_records = <<>>
    /\ tracker_result = NoResult
    /\ cost_breakdown = NoCost
    /\ calls = [p \in CallIds |-> IdleCall]

\* key requests, revocations, grants and debits of concurrent requests
NextKeys ==
    \/ \E p \in DOMAIN calls, u \in UserIds : generate_api_key_check(p, u)
    \/ \E p \in DOMAIN calls : generate_api_key_commit(p)
    \/ \E k \in KeyIds : revoke_api_key(k)
    \/ \E p \in DOMAIN calls, t \in PayRefs : Local_add_credits_select(p, "u1", 1, t)
    \/ \E p \in DOMAIN calls : Local_add_credits_commit(p)
    \/ \E p \in DOMAIN calls, c \in Amounts : Local_deduct_credits_select(p, "u1", c, "wfA")
    \/ \E p \in DOMAIN calls : Local_deduct_credits_commit(p)
    \/ Tick

SpecKeys == InitKeys /\ [][NextKeys]_vars

\* Requests at the service endpoints: u1 holds one key and some balance left
\* of the minimum it bought; the key is revoked and the user deactivated
\* while requests arrive one at a time
GateBalances == {4, 5, 150}
\* @check_api_key_and_credits(estimated_tokens=5) of get_session_status and
\* (estimated_tokens=150) of send_message
EstimatedTokens == {5, 150}
\* the keys a request may present: none (0), the key row, a key no row has
GateKeys == 0..2
\* the usage process_and_respond records: the completion's total_tokens
GateUsage == <<"gpt", "gpt-4o-mini", 2000, "tokens">>

GateLedger(u, b, i) ==
    <<CreditTransaction(u, minimum_credits_for_api_key, <<"pay", i>>, Purchase),
      CreditTransaction(u, b - minimum_credits_for_api_key, <<"usage", 0 - i>>, "wfA")>>

InitGate ==
    /\ \E b \in GateBalances :
          /\ credit_balance = [u \in UserIds |-> IF u = "u1" THEN b ELSE 0]
          /\ credit_transactions = GateLedger("u1", b, 1)
    /\ api_keys = <<APIKey("u1")>>
    /\ is_active = [u \in UserIds |-> TRUE]
    /\ payments = NoPayments
    /\ purchases = NoPurchases
    /\ NoLimiter
    /\ NoSessions
    /\ sq_credits = <<>>
    /\ sq_transactions = <<>>
    /\ sq_shared = {}
    /\ sq_reserved = {}
    /\ clock = 0
    /\ workflow_ctx = <<>>
    /\ usage_records = <<>>
    /\ tracker_result = NoResult
    /\ cost_breakdown = NoCost
    /\ calls = [p \in CallIds |-> IdleCall]

NextGate ==
    \/ /\ Quiet
       /\ \E p \in DOMAIN calls, k \in GateKeys, estimated_tokens \in EstimatedTokens :
             check_api_key_and_credits(p, k, estimated_tokens)
    \/ \E p \in DOMAIN calls : send_message_start(p)
    \/ \E p \in DOMAIN calls : service_endpoint_return(p)
    \/ \E p \in DOMAIN calls : process_and_respond_usage(p, GateUsage)
    \/ \E p \in DOMAIN calls : process_and_respond_complete(p)
    \/ \E p \in DOMAIN calls : Settle_deduct_credits_select(p)
    \/ \E p \in DOMAIN calls : Local_deduct_credits_commit(p)
    \/ \E k \in GateKeys : revoke_api_key(k)
    \/ \E active \in BOOLEAN : update_user("u1", active)
    \/ Tick

SpecGate == InitGate /\ [][NextGate]_vars

\* The life of a new account u1: grants of 5000 credits under the reference
\* tx-pay-1 through either manager (process_credit_purchase and the tests
\* grant through CreditManager), and after the grant requests that record
\* 2000 gpt-4o-mini tokens; one call at a time
LifecycleCalls == 4
TxPay1 == <<"pay", 1>>

\* a grant under tx-pay-1 is committed
Granted ==
    \/ TxPay1 \in TransactionIds(credit_transactions)
    \/ TxPay1 \in TransactionIds(sq_transactions)

InitLifecycle ==
    /\ EmptyStores
    /\ calls = [p \in 1..LifecycleCalls |-> IdleCall]

NextLifecycle ==
    \/ /\ Quiet
       /\ \/ \E p \in DOMAIN calls :
                CM_add_credits_select(p, "u1", minimum_credits_for_api_key, TxPay1)
          \/ \E p \in DOMAIN calls :
                Local_add_credits_select(p, "u1", minimum_credits_for_api_key, TxPay1)
          \/ Granted /\ \E p \in DOMAIN calls : process_and_respond_start(p, "u1")
    \/ \E p \in DOMAIN calls : CM_add_credits_write(p)
    \/ \E p \in DOMAIN calls : CM_add_credits_commit(p)
    \/ \E p \in DOMAIN calls : Local_add_credits_commit(p)
    \/ \E p \in DOMAIN calls : process_and_respond_usage(p, GateUsage)
    \/ \E p \in DOMAIN calls : process_and_respond_complete(p)
    \/ \E p \in DOMAIN calls : Settle_deduct_credits_select(p)
    \/ \E p \in DOMAIN calls : Local_deduct_credits_commit(p)
    \/ Tick

SpecLifecycle == InitLifecycle /\ [][NextLifecycle]_vars

\* Credit purchases: process_credit_purchase activations (the grant of
\* activation q runs in call q), the gateway and its callbacks
PurchaseAmounts == {4, 5}

\* the activations and the gateway
NextPoll ==
    \/ \E q \in PurchaseIds, amount \in PurchaseAmounts, accepted \in BOOLEAN :
          process_credit_purchase_request(q, "u1", amount, accepted)
    \/ \E q \in PurchaseIds, status \in {"pending", "successful", "failed", "unknown", "error"} :
          process_credit_purchase_poll(q, status)
    \/ \E q \in PurchaseIds : process_credit_purchase_timeout(q)
    \/ \E q \in PurchaseIds : CM_add_credits_write(q)
    \/ \E q \in PurchaseIds : CM_add_credits_commit(q)
    \/ \E q \in PurchaseIds : process_credit_purchase_return(q)
    \/ \E q \in PurchaseIds, status \in {"successful", "failed"} : Gateway_settle(q, status)

NextPurchase ==
    \/ NextPoll
    \/ \E q \in PurchaseIds : mtn_webhook(q)
    \/ \E q \in PurchaseIds : handle_webhook(q)

SpecPurchase == Init /\ [][NextPurchase]_vars

\* the steps of activation q, of which at most one is possible at a time
process_credit_purchase_step(q) ==
    \/ \E status \in {"pending", "successful", "failed", "unknown", "error"} :
          process_credit_purchase_poll(q, status)
    \/ process_credit_purchase_timeout(q)
    \/ CM_add_credits_write(q)
    \/ CM_add_credits_commit(q)
    \/ process_credit_purchase_return(q)

\* an activation goes on until it returns; the gateway, the payer and the
\* delivery of callbacks are under no obligation
PurchaseFairness == \A q \in PurchaseIds : WF_vars(process_credit_purchase_step(q))

SpecPurchaseFair == Init /\ [][NextPurchase]_vars /\ PurchaseFairness

\* the activations and the gateway alone (no callback changes what an
\* activation reads)
SpecPollFair == Init /\ [][NextPoll]_vars /\ PurchaseFairness

\* ------------------------------------------------ requests at the rate limiter
Repeat(n, x) == [i \in 1..n |-> x]
Stamp(ip, t) == [ip |-> ip, at |-> t]

\* What ip1 has done when the behaviour starts: the time, its counters, the
\* time its daily counter was last reset, its request_times and its allowed
\* requests of the current day. Each is the trace of requests named with it.
LimiterHistory(now, daily, monthly, reset, times, log) ==
    [now |-> now, daily |-> daily, monthly |-> monthly, reset |-> reset, times |-> times,
     log |-> log]

LimiterHistories ==
    { \* 29 requests at second 0
      LimiterHistory(0, 29, 29, 0, Repeat(29, 0), Repeat(29, Stamp("ip1", 0))),
      \* 20 requests at second 0, 29 at second 100
      LimiterHistory(100, 49, 49, 0, Repeat(29, 100),
                     Repeat(20, Stamp("ip1", 0)) \o Repeat(29, Stamp("ip1", 100))),
      \* 1 request at second 0, 30 in the last second of the day it began
      LimiterHistory(OneDay - 1, 31, 31, 0, Repeat(30, OneDay - 1),
                     <<Stamp("ip1", 0)>> \o Repeat(30, Stamp("ip1", OneDay - 1))),
      \* the twentieth day of 50 requests, 30 at its second 0 and 20 at 61
      LimiterHistory(61, DAILY_FREE_LIMIT, MONTHLY_FREE_LIMIT, 0, Repeat(20, 61),
                     Repeat(30, Stamp("ip1", 0)) \o Repeat(20, Stamp("ip1", 61))) }

\* the moments at which requests arrive
Instants ==
    {0, RATE_WINDOW, RATE_WINDOW + 1, 100, 100 + RATE_WINDOW, 101 + RATE_WINDOW,
     OneDay - 1, OneDay, OneDay + RATE_WINDOW - 1, OneDay + RATE_WINDOW, 2 * OneDay,
     30 * OneDay - 1, 30 * OneDay, 31 * OneDay}

InitLimiter ==
    /\ credit_balance = [u \in UserIds |-> 0]
    /\ credit_transactions = <<>>
    /\ sq_credits = <<>>
    /\ sq_transactions = <<>>
    /\ sq_shared = {}
    /\ sq_reserved = {}
    /\ workflow_ctx = <<>>
    /\ usage_records = <<>>
    /\ tracker_result = NoResult
    /\ cost_breakdown = NoCost
    /\ api_keys = <<>>
    /\ is_active = [u \in UserIds |-> TRUE]
    /\ payments = NoPayments
    /\ purchases = NoPurchases
    /\ NoSessions
    /\ calls = [p \in CallIds |-> IdleCall]
    /\ limiter_result = NoAnswer
    /\ \/ /\ clock = 0
          /\ daily_usage = <<>>
          /\ monthly_usage = <<>>
          /\ last_reset = <<>>
          /\ request_times = <<>>
          /\ free_allowed = <<>>
       \/ \E h \in LimiterHistories :
             /\ clock = h.now
             /\ daily_usage = [ip \in {"ip1"} |-> h.daily]
             /\ monthly_usage = [ip \in {"ip1"} |-> h.monthly]
             /\ last_reset = [ip \in {"ip1"} |-> h.reset]
             /\ request_times = [ip \in {"ip1"} |-> h.times]
             /\ free_allowed = h.log

\* time passes until the next request arrives
TimePasses(t) ==
    /\ clock < t
    /\ clock' = t
    /\ UNCHANGED <<pgVars, sqVars, nonCreditVars, calls>>

NextLimiter ==
    \/ \E ip \in IPs, api_key \in BOOLEAN : is_allowed(ip, api_key)
    \/ \E t \in Instants : TimePasses(t)

SpecLimiter == InitLimiter /\ [][NextLimiter]_vars

\* ------------------------------------------- requests at the session endpoints
\* the session ids a client may present: the ids that are or will be issued
SessionIds == HandlerIds

\* the Flask server runs each request in a thread of its own: the handlers of
\* concurrent requests interleave at their statements
NextSessions ==
    \/ \E h \in HandlerIds : create_agent_session_store(h)
    \/ \E h \in HandlerIds : create_agent_session_queue(h)
    \/ \E h \in HandlerIds, session_id \in SessionIds : send_message_check(h, session_id)
    \/ \E h \in HandlerIds : send_message_put(h)
    \/ \E h \in HandlerIds : send_message_config(h)
    \/ \E h \in HandlerIds : send_message_respond(h)
    \/ \E h \in HandlerIds, session_id \in SessionIds : delete_session_check(h, session_id)
    \/ \E h \in HandlerIds : delete_session_config(h)
    \/ \E h \in HandlerIds : delete_session_del_session(h)
    \/ \E h \in HandlerIds : delete_session_del_queue(h)

SpecSessions == Init /\ [][NextSessions]_vars

\* ================================================================== claims
Debits(rows) == {i \in 1..Len(rows) : rows[i].credits < 0}
Succeeded == {p \in DOMAIN calls : calls[p].pc = "done" /\ calls[p].result.success}
Failed(err) == {p \in DOMAIN calls : calls[p].pc = "done" /\ calls[p].result.error = err}

\* C1: for every account the stored balance equals the sum of the credits
\* column over the committed ledger rows of the account, in both stores, after
\* any interleaving of add_credits and deduct_credits calls.
C1_BalanceEqualsLedger ==
    /\ \A u \in UserIds : credit_balance[u] = SumCredits(u, credit_transactions)
    /\ \A u \in UserIds : get_user_credits(u) = SumCredits(u, sq_transactions)

\* C2: of N > 5 concurrent debit(1) calls against a balance of 5 exactly 5
\* succeed, every other one fails with insufficient credits, and the final
\* balance is 0.
C2_ExactlyFiveDebitsSucceed ==
    (\A p \in DOMAIN calls : calls[p].pc = "done") =>
        /\ Cardinality(Succeeded) = StartBalance
        /\ Succeeded \cup Failed("insufficient_credits") = DOMAIN calls
        /\ NoneOf(CMOps) => credit_balance["u1"] = 0
        /\ NoneOf(LocalOps) => get_user_credits("u1") = 0

\* C3: in every reachable state every account balance is >= 0, in both stores.
C3_NoNegativeBalance ==
    /\ \A u \in UserIds : credit_balance[u] >= 0
    /\ \A u \in UserIds : get_user_credits(u) >= 0

\* a debit brought a balance to 0 and a further debit was declined
C3_Witness ==
    /\ \E i \in Debits(credit_transactions) :
          credit_balance[credit_transactions[i].user_id] = 0
    /\ Failed("insufficient_credits") # {}

\* C4: add_credits called again, one call after the other, with a transaction
\* id that is already in the ledger changes neither the balance nor the ledger;
\* the first call raises the balance by the amount and leaves exactly one row
\* with the transaction id.
C4_Step ==
    \A p \in DOMAIN calls :
        /\ (calls[p].op = "add_credits" /\ calls[p].pc = "commit" /\ calls'[p].pc = "done") =>
              IF calls[p].txid \in TransactionIds(credit_transactions)
              THEN UNCHANGED pgVars
              ELSE /\ credit_balance' = [credit_balance EXCEPT
                                            ![calls[p].user] = @ + calls[p].credits]
                   /\ Len(credit_transactions') = Len(credit_transactions) + 1
                   /\ Cardinality(RowsWith(credit_transactions', calls[p].txid)) = 1
        /\ (calls[p].pc = "idle" /\ calls'[p].op = "cm_add_credits" /\ calls'[p].pc = "done") =>
              UNCHANGED sqVars
        /\ (calls[p].op = "cm_add_credits" /\ calls[p].pc = "commit" /\ calls'[p].pc = "done") =>
              /\ calls[p].txid \notin TransactionIds(sq_transactions)
              /\ sq_credits'[calls[p].user] = get_user_credits(calls[p].user) + calls[p].credits
              /\ \A u \in DOMAIN sq_credits \ {calls[p].user} : sq_credits'[u] = sq_credits[u]
              /\ Len(sq_transactions') = Len(sq_transactions) + 1
              /\ Cardinality(RowsWith(sq_transactions', calls[p].txid)) = 1

C4_IdempotentGrant == [][C4_Step]_vars

\* a grant was repeated: one row carries the id, the balance was raised once
C4_Witness ==
    \/ /\ Failed("rollback") # {}
       /\ Len(credit_transactions) = 1
       /\ credit_balance[credit_transactions[1].user_id] = credit_transactions[1].credits
    \/ /\ Failed("existing") # {}
       /\ Len(sq_transactions) = 1
       /\ get_user_credits(sq_transactions[1].user_id) = sq_transactions[1].credits

\* C5: when grants carrying one external reference run concurrently, under
\* every interleaving at most one ledger row is committed for the reference,
\* exactly one once the attempts have returned, and the balance is raised by
\* that row only: the losing attempt's balance update is not kept.
C5_DuplicateGrantsCollapse ==
    /\ Len(credit_transactions) <= 1 /\ Len(sq_transactions) <= 1
    /\ (Quiet /\ ~NoneOf(LocalOps)) => Len(credit_transactions) = 1
    /\ (Quiet /\ ~NoneOf(CMOps)) => Len(sq_transactions) = 1
    /\ \A u \in UserIds : credit_balance[u] = SumCredits(u, credit_transactions)
    /\ \A u \in UserIds : get_user_credits(u) = SumCredits(u, sq_transactions)

\* two attempts with the reference were in flight together and both have
\* returned, one of them without effect
C5_Witness ==
    \/ /\ Len(credit_transactions) = 1
       /\ Failed("rollback") # {}
       /\ \E p \in Failed("rollback") : \E q \in Succeeded : q > p
    \/ /\ Len(sq_transactions) = 1
       /\ Failed("database is locked") # {}

\* C6: no two ledger rows share a transaction_id, across all accounts and
\* across grants and debits, in both stores.
C6_UniqueTransactionId ==
    /\ \A t \in TransactionIds(credit_transactions) :
          Cardinality(RowsWith(credit_transactions, t)) = 1
    /\ \A t \in TransactionIds(sq_transactions) :
          Cardinality(RowsWith(sq_transactions, t)) = 1

\* an attempt to commit a present id was made and added no row
C6_Witness ==
    /\ Failed("rollback") \cup Failed("Database error") # {}
    /\ Len(credit_transactions) >= 2

\* C7: a debit of c credits against a balance below c is declined; the decline
\* reports the current balance and the required amount and leaves the balance
\* and the ledger as they were; a debit goes on to its commit only with a
\* balance of at least c.
C7_Step ==
    \A p \in DOMAIN calls :
        /\ (calls[p].pc = "idle" /\ calls'[p].op = "deduct_credits" /\ calls'[p].pc = "done") =>
              /\ UNCHANGED <<pgVars, sqVars>>
              /\ calls'[p].result.error = "insufficient_credits"
              /\ calls'[p].result.success = FALSE
              /\ calls'[p].result.current_credits < calls'[p].result.required_credits
              /\ \E u \in UserIds : calls'[p].result.current_credits = credit_balance[u]
              /\ calls'[p].result.required_credits \in Amounts
        /\ (calls[p].pc = "idle" /\ calls'[p].op = "deduct_credits" /\ calls'[p].pc = "commit") =>
              /\ credit_balance[calls'[p].user] >= calls'[p].credits
              /\ calls'[p].read = credit_balance[calls'[p].user]

C8_OneDebitPerReference ==
    \A d \in Descriptions :
        Cardinality({i \in Debits(credit_transactions) :
                        credit_transactions[i].description = d}) <= 1

\* C9: settling a workflow whose entries were priced at c1..cn produces one
\* posting whose total is c1+...+cn and lowers the account balance by that
\* sum: the debit of a settlement that found the balance sufficient appends
\* one ledger row of minus the recorded total and lowers the balance by it.
C9_Step ==
    \A p \in DOMAIN calls :
        (calls[p].op = "deduct_credits" /\ calls[p].wf # 0 /\ calls[p].pc = "commit"
            /\ calls'[p].pc = "done") =>
            LET u == calls[p].user
                recs == {i \in 1..Len(usage_records) : usage_records[i].id = calls[p].wf}
            IN /\ Cardinality(recs) = 1
               /\ \A i \in recs :
                     usage_records[i].services_used # <<>> =>
                     /\ usage_records[i].total_credits_used =
                            SumUsed(usage_records[i].services_used)
                     /\ credit_balance'[u] = credit_balance[u] - usage_records[i].total_credits_used
                     /\ Len(credit_transactions') = Len(credit_transactions) + 1
                     /\ credit_transactions'[Len(credit_transactions')].credits =
                            0 - usage_records[i].total_credits_used
                     /\ credit_transactions'[Len(credit_transactions')].user_id = u

C9_SettleDebitsSum == [][C9_Step]_vars

\* C10: recording a settled workflow and debiting its account are one atomic
\* step: in every reachable state each persisted usage record with a total
\* T >= 1 has exactly one matching debit of T on its account.
C10_RecordHasDebit ==
    \A u \in UserIds, T \in 1..(MaxEntries * 10) :
        Cardinality({i \in 1..Len(usage_records) :
                        /\ usage_records[i].user_id = u
                        /\ usage_records[i].total_credits_used = T})
        = Cardinality({i \in Debits(credit_transactions) :
                        /\ credit_transactions[i].user_id = u
                        /\ credit_transactions[i].credits = 0 - T})
\* a workflow is open while a tracker holds its context, settled once its
\* usage record is persisted
WorkflowState(w) ==
    IF w \in RecordIds THEN "settled"
    ELSE IF w \in DOMAIN workflow_ctx THEN "open"
    ELSE "none"

RecordsOf(w) == {i \in 1..Len(usage_records) : usage_records[i].id = w}

\* the step is a call of the tracker method
TrackerCall(method) ==
    /\ tracker_result' # tracker_result
    /\ tracker_result'.method = method

\* C11: complete_workflow called again with the id of a workflow that is
\* already settled returns the settlement result of the first call (success,
\* the same total credits and entry count) and persists and charges nothing
\* further.
C11_Step ==
    LET w == tracker_result'.workflow_id IN
    (TrackerCall("complete_workflow") /\ w \in RecordIds) =>
        /\ tracker_result'.success
        /\ \A i \in RecordsOf(w) :
              /\ tracker_result'.total_credits_used = usage_records[i].total_credits_used
              /\ tracker_result'.services_count = Len(usage_records[i].services_used)
        /\ UNCHANGED <<usage_records, pgVars, sqVars>>

C11_SettleAgainSameResult == [][C11_Step]_vars

\* C12: a workflow only goes from open to settled (no code path abandons a
\* workflow into a void state); settled is terminal: the record of a settled
\* workflow stays as it is, its context is gone for good, and no workflow id
\* ever has more than one persisted usage record.
C12_Step ==
    \A w \in WorkflowIds :
        /\ WorkflowState(w) = "settled" =>
              /\ WorkflowState(w)' = "settled"
              /\ w \notin DOMAIN workflow_ctx'
              /\ \A i \in RecordsOf(w) : usage_records'[i] = usage_records[i]
        /\ WorkflowState(w) = "open" => WorkflowState(w)' \in {"open", "settled"}
        /\ WorkflowState(w) = "settled" => w \notin DOMAIN workflow_ctx
        /\ Cardinality(RecordsOf(w)') <= 1

C12_WorkflowStateMachine == [][C12_Step]_vars

\* a settled workflow with entries was presented to complete_workflow again:
\* it still has its one record
C12_Witness ==
    /\ tracker_result.method = "complete_workflow"
    /\ ~tracker_result.success
    /\ \E i \in RecordsOf(tracker_result.workflow_id) :
          usage_records[i].services_used # <<>>
    /\ Cardinality(RecordsOf(tracker_result.workflow_id)) = 1

\* C13: add_service_usage with a workflow id that is unknown or no longer
\* open (already settled) returns the error "Workflow not found", prices and
\* appends nothing, and leaves every workflow, the records, the ledgers and
\* the balances unchanged.
C13_Step ==
    LET w == tracker_result'.workflow_id IN
    (TrackerCall("add_service_usage") /\ WorkflowState(w) # "open") =>
        /\ ~tracker_result'.success
        /\ tracker_result'.error = "Workflow not found"
        /\ tracker_result'.credits_used = 0
        /\ UNCHANGED <<workflow_ctx, usage_records, pgVars, sqVars>>

C13_RecordOnClosedWorkflow == [][C13_Step]_vars

\* usage was reported on a settled workflow while another workflow is open
C13_Witness ==
    /\ tracker_result.method = "add_service_usage"
    /\ tracker_result.error = "Workflow not found"
    /\ WorkflowState(tracker_result.workflow_id) = "settled"
    /\ \E w \in WorkflowIds : WorkflowState(w) = "open"

\* C14: a successful add_service_usage on an open workflow returns the
\* cumulative credit total of all entries recorded on the workflow so far,
\* the new one included.
C14_Step ==
    LET w == tracker_result'.workflow_id IN
    (TrackerCall("add_service_usage") /\ tracker_result'.success) =>
        tracker_result'.credits_used = SumUsed(workflow_ctx'[w].services_used)

C14_RecordReturnsRunningTotal == [][C14_Step]_vars
\* the exact max(1, floor(units x credits_per_unit)), token rates per 1000
ExactCredits(pricing, units, unit_type) ==
    IF unit_type = "tokens"
    THEN IF (units * pricing.num) \div (1000 * pricing.den) >= 1
         THEN (units * pricing.num) \div (1000 * pricing.den) ELSE 1
    ELSE IF (units * pricing.num) \div pricing.den >= 1
         THEN (units * pricing.num) \div pricing.den ELSE 1

\* the unit kind the rate of a pricing entry is for
UnitOf(key) ==
    CASE key = "credits_per_1k_tokens" -> "tokens"
      [] key = "credits_per_char" -> "characters"
      [] key = "credits_per_minute" -> "minutes"
      [] key = "credits_per_image" -> "images"
      [] OTHER -> "none"

Priced == cost_breakdown.fn \in {"calculate_service_cost", "calculate_cost_and_credits"}

AllEntries ==
    UNION { {usage_records[i].services_used[j] :
                j \in 1..Len(usage_records[i].services_used)} : i \in 1..Len(usage_records) }
    \cup UNION { {workflow_ctx[w].services_used[j] :
                j \in 1..Len(workflow_ctx[w].services_used)} : w \in DOMAIN workflow_ctx }

\* C15: every usage priced with units > 0 is charged at least 1 credit, for
\* every service kind, provider and unit kind, in the table or not, by both
\* pricing functions; every entry recorded on a workflow carries at least 1
\* credit, and every settled workflow with entries has a total of at least 1.
C15_PricingFloor ==
    /\ (Priced /\ cost_breakdown.units > 0) => cost_breakdown.credits_used >= 1
    /\ \A entry \in AllEntries : entry.units_consumed > 0 => entry.credits_used >= 1
    /\ \A i \in 1..Len(usage_records) :
          (\E j \in 1..Len(usage_records[i].services_used) :
              usage_records[i].services_used[j].units_consumed > 0)
          => usage_records[i].total_credits_used >= 1

\* a workflow whose one entry is a single cartesia character (nominal 0.0008
\* credits) has settled with a total of 1
C15_Witness ==
    \E i \in 1..Len(usage_records) :
        /\ Len(usage_records[i].services_used) = 1
        /\ usage_records[i].services_used[1].provider = "cartesia"
        /\ usage_records[i].services_used[1].unit_type = "characters"
        /\ usage_records[i].services_used[1].units_consumed = 1
        /\ usage_records[i].total_credits_used = 1

\* C16: for a (service kind, provider) of the pricing table and the unit kind
\* its rate is for, the credits charged are max(1, floor(units x
\* credits_per_unit)), token rates applying per 1000 tokens.
C16_TablePrice ==
    LET pricing == PRICING(cost_breakdown.service_type, cost_breakdown.provider) IN
    (/\ cost_breakdown.fn = "calculate_service_cost"
     /\ pricing.key # "none"
     /\ UnitOf(pricing.key) = cost_breakdown.unit_type)
    => cost_breakdown.credits_used =
          ExactCredits(pricing, cost_breakdown.units, cost_breakdown.unit_type)

\* C17: pricing a (service kind, provider) pair that is absent from the table
\* returns the default of one credit per 100 units, max(1, units div 100),
\* whatever the unit kind.
C17_DefaultRate ==
    (/\ cost_breakdown.fn = "calculate_service_cost"
     /\ PRICING(cost_breakdown.service_type, cost_breakdown.provider).key = "none")
    => cost_breakdown.credits_used =
          (IF cost_breakdown.units \div 100 >= 1 THEN cost_breakdown.units \div 100 ELSE 1)

\* 250 units of a provider the table does not have were priced at 2 credits
C17_Witness ==
    /\ cost_breakdown.fn = "calculate_service_cost"
    /\ cost_breakdown.provider = "unknown-model"
    /\ cost_breakdown.units = 250
    /\ cost_breakdown.credits_used = 2
KeysOf(u) == {k \in 1..Len(api_keys) : api_keys[k].user_id = u}

\* the step decides the key request of slot p
KeyDecision(p) == calls[p].pc = "idle" /\ calls'[p].op = "generate_api_key"

\* C18: can_generate_api_key answers can_generate = (balance >= 5000) with
\* required 5000 for a first key and can_generate = (balance > 0) with
\* required 1 for an additional key, reports the balance as current_credits
\* and deficit = max(0, required - balance); a request goes on to create the
\* key exactly when can_generate holds.
C18_Step ==
    \A p \in DOMAIN calls :
        KeyDecision(p) =>
            LET check == calls'[p].result
                u == calls'[p].user
            IN /\ check.current_credits = credit_balance[u]
               /\ KeysOf(u) = {} => check.is_first_key
               /\ existing_keys_count(u) > 0 => ~check.is_first_key
               /\ check.required_credits =
                     (IF check.is_first_key THEN minimum_credits_for_api_key ELSE 1)
               /\ check.can_generate =
                     (IF check.is_first_key
                      THEN check.current_credits >= minimum_credits_for_api_key
                      ELSE check.current_credits > 0)
               /\ check.deficit =
                     (IF check.required_credits > check.current_credits
                      THEN check.required_credits - check.current_credits ELSE 0)
               /\ (calls'[p].pc = "commit") = check.can_generate
               /\ UNCHANGED <<pgVars, keyVars>>

C18_KeyGate == [][C18_Step]_vars

\* a first key was refused at 4999 with a deficit of 1, a grant of 1 credit
\* was committed, and a later request of the account was allowed
C18_Witness ==
    \E p \in DOMAIN calls, q \in DOMAIN calls :
        /\ p < q
        /\ calls[p].op = "generate_api_key" /\ calls[p].pc = "done"
        /\ ~calls[p].result.success
        /\ calls[p].result.current_credits = 4999
        /\ calls[p].result.deficit = 1
        /\ calls[q].op = "generate_api_key" /\ calls[q].pc = "commit"
        /\ calls[q].result.can_generate
        /\ calls[q].result.current_credits = minimum_credits_for_api_key
        /\ Len(credit_transactions) = 2

\* C19: every API key is committed at a moment when its account satisfies the
\* issuance gate (no non-revoked key: balance >= 5000; else balance > 0),
\* under every interleaving of key requests with debits and other key requests.
C19_Step ==
    \A p \in DOMAIN calls :
        (calls[p].op = "generate_api_key" /\ calls[p].pc = "commit"
            /\ Len(api_keys') = Len(api_keys) + 1) =>
            LET u == calls[p].user IN
            IF existing_keys_count(u) = 0
            THEN credit_balance[u] >= minimum_credits_for_api_key
            ELSE credit_balance[u] > 0

C19_KeyCommittedUnderGate == [][C19_Step]_vars

\* C20: revocation is terminal: a key whose revoked flag is true keeps it
\* true in every later state, whatever is revoked, issued or granted; key
\* rows are never removed.
C20_Step ==
    /\ Len(api_keys') >= Len(api_keys)
    /\ \A k \in 1..Len(api_keys) :
          /\ api_keys'[k].user_id = api_keys[k].user_id
          /\ api_keys[k].revoked => api_keys'[k].revoked

C20_RevocationTerminal == [][C20_Step]_vars

\* a key issued in the behaviour was revoked; the account holds a newer key
\* that is not revoked, and credits were granted
C20_Witness ==
    /\ \E k \in 2..Len(api_keys) :
          /\ api_keys[k].revoked
          /\ k < Len(api_keys)
          /\ ~api_keys[Len(api_keys)].revoked
    /\ \E i \in 1..Len(credit_transactions) :
          credit_transactions[i].transaction_id \in PayRefs

\* ------------------------------------------------------------------ C21
\* the request the gate decided in this step, if any
GateDecided(p) == calls[p].pc = "idle" /\ calls'[p].op = "service_endpoint"

\* the gate declined the request of call p
GateDeclined(p) ==
    calls[p].op = "service_endpoint" /\ calls[p].pc = "done" /\ ~calls[p].result.success

\* C21: a request presenting a key that has no row or is revoked is answered
\* 401 whatever the owner's balance, a revoked key stays revoked for every
\* later request, and the rejection changes no balance and no ledger row
C21_Step ==
    /\ \A k \in 1..Len(api_keys) : api_keys[k].revoked => api_keys'[k].revoked
    /\ \A p \in DOMAIN calls :
          GateDecided(p) =>
             LET k == calls'[p].key IN
             (k \notin 1..Len(api_keys) \/ api_keys[k].revoked) =>
                /\ calls'[p].pc = "done"
                /\ ~calls'[p].result.success
                /\ calls'[p].result.status = 401
                /\ UNCHANGED <<pgVars, sqVars, wfVars>>

C21_RevokedOrUnknownKeyRejected == [][C21_Step]_vars

\* a request was admitted and charged; then its key was revoked and a later
\* request with it is rejected although the balance covers the estimate
C21_Witness ==
    \E p \in DOMAIN calls :
       /\ GateDeclined(p)
       /\ calls[p].key = 1
       /\ calls[p].result.status = 401
       /\ api_keys[1].revoked
       /\ credit_balance["u1"] >= 5
       /\ \E t \in TransactionIds(credit_transactions) : t = UsageTransactionId(clock)

\* ------------------------------------------------------------------ C22
\* C22: a request with a key that has an unrevoked row is admitted exactly when
\* the key's user is active and holds at least the estimated credits; a
\* declined one is answered with the user's balance and the credits needed,
\* and neither the decision nor anything after a decline does paid work or
\* changes a balance
C22_Step ==
    \A p \in DOMAIN calls :
       /\ GateDecided(p) =>
             LET k == calls'[p].key
                 estimated_credits == calls'[p].credits IN
             (k \in 1..Len(api_keys) /\ ~api_keys[k].revoked) =>
                LET user == api_keys[k].user_id IN
                /\ calls'[p].pc = "admitted"
                     <=> (is_active[user] /\ credit_balance[user] >= estimated_credits)
                /\ calls'[p].pc # "admitted" =>
                      /\ calls'[p].pc = "done"
                      /\ ~calls'[p].result.success
                      /\ calls'[p].result.current_credits = credit_balance[user]
                      /\ calls'[p].result.credits_needed = estimated_credits
                      /\ UNCHANGED <<pgVars, sqVars, wfVars>>
       /\ GateDeclined(p) => calls'[p] = calls[p]

C22_GateAdmitsOnActiveAndBalance == [][C22_Step]_vars

\* ------------------------------------------------------------------ C23
\* C23: the new account cannot be issued a key and lacks 5000 credits; once
\* the grant of 5000 under tx-pay-1 is committed the balance the key gate reads
\* is 5000 and a key can be issued; once a request that recorded 2000
\* gpt-4o-mini tokens is settled the balance is 4998, and it stays 4998
\* whatever grants under tx-pay-1 are replayed
C23_FullLifecycle ==
    LET check == can_generate_api_key("u1")
        fresh == workflow_ctx = <<>> /\ usage_records = <<>>
    IN /\ ~Granted => (~check.can_generate /\ check.deficit = minimum_credits_for_api_key)
       /\ (Granted /\ fresh) =>
             (check.can_generate /\ check.current_credits = minimum_credits_for_api_key)
       /\ (Granted /\ Quiet /\ Len(usage_records) = 1
             /\ usage_records[1].total_credits_used = 2) =>
             check.current_credits = minimum_credits_for_api_key - 2

\* ------------------------------------------------------------------ C24
\* C24: usage is recorded on, and the settlement made of, an open workflow
\* through whatever tracker object the call goes to, the one that opened the
\* workflow or another: the call does not report "Workflow not found"
C24_Step ==
    LET w == tracker_result'.workflow_id IN
    ((TrackerCall("add_service_usage") \/ TrackerCall("complete_workflow"))
        /\ WorkflowState(w) = "open") =>
        /\ tracker_result'.success
        /\ tracker_result'.error # "Workflow not found"

C24_WorkflowVisibleAcrossTrackers == [][C24_Step]_vars

\* ------------------------------------------------------------------ C25
\* C25: a workflow left open, with or without entries, is reaped: it ends
\* settled or void (void is the state of a reaped workflow, never charged),
\* whatever its request did
C25_OpenWorkflowReaped ==
    \A w \in WorkflowIds :
        (WorkflowState(w) = "open") ~> (WorkflowState(w) \in {"settled", "void"})

\* ------------------------------------------------------------------ C26
\* C26: the settlement of a workflow without entries posts no debit: the
\* request's debit call writes no ledger row and changes no balance
C26_Step ==
    \A p \in DOMAIN calls :
       (/\ calls[p].op = "deduct_credits" /\ calls[p].pc = "commit"
        /\ calls'[p].pc = "done"
        /\ \E i \in RecordsOf(calls[p].wf) : usage_records[i].services_used = <<>>)
       => UNCHANGED pgVars

C27_SuccessOnlyWithGrant ==
    \A q \in PurchaseIds :
        (purchases[q].pc = "done" /\ purchases[q].result.success) =>
            /\ ReferenceOf(q) \in TransactionIds(sq_transactions)
            /\ \E i \in RowsWith(sq_transactions, ReferenceOf(q)) :
                  /\ sq_transactions[i].user_id = purchases[q].user
                  /\ sq_transactions[i].credits = purchases[q].credits_to_add

\* two purchases were confirmed by the gateway; one grant was committed and
\* reported, the other found the database locked and is reported as failed
C27_Witness ==
    \E q, r \in PurchaseIds :
        /\ purchases[q].pc = "done" /\ purchases[q].result.success
        /\ purchases[q].result.total_credits = purchases[q].credits_to_add
        /\ purchases[r].pc = "done"
        /\ purchases[r].result.error = "Failed to allocate credits"
        /\ ReferenceOf(r) \notin TransactionIds(sq_transactions)

\* ------------------------------------------------------------------ C28
\* C28: every payment the gateway confirms as successful leads to a committed
\* grant of its reference, also when the confirmation comes after the polling
\* has ended or by webhook
C28_ConfirmedPaymentGranted ==
    \A q \in PurchaseIds :
        (payments[q].status = "successful")
            ~> (ReferenceOf(q) \in TransactionIds(sq_transactions))

\* ------------------------------------------------------------------ C29
\* the most status checks one purchase makes
MaxChecks == max_wait_time \div poll_interval

C29_Bounded ==
    \A q \in PurchaseIds :
        /\ purchases[q].checks <= MaxChecks
        /\ purchases[q].elapsed_time = purchases[q].checks * poll_interval
        /\ (purchases[q].pc = "done" /\ purchases[q].result.error = "Payment timeout") =>
              /\ purchases[q].checks = MaxChecks
              /\ purchases[q].status \notin {"successful", "failed"}

C29_Step ==
    \A q \in PurchaseIds :
        /\ purchases'[q].checks # purchases[q].checks =>
              /\ purchases[q].pc = "poll"
              /\ purchases'[q].checks = purchases[q].checks + 1
              /\ purchases[q].status \notin {"successful", "failed"}
              /\ purchases'[q].status \in {"successful", "failed"} => purchases'[q].pc # "poll"
              /\ purchases'[q].status \notin {"successful", "failed"} =>
                    purchases'[q].pc = "poll"

\* C29: a purchase makes at most max_wait_time / poll_interval = 12 status
\* checks, one per interval, stops at the first check that reports successful
\* or failed, returns a timeout failure when none did, and always returns
C29_PollingBounded ==
    /\ []C29_Bounded
    /\ [][C29_Step]_vars
    /\ \A q \in PurchaseIds : (purchases[q].pc = "poll") ~> (purchases[q].pc = "done")

\* a purchase timed out after twelve checks, another stopped at its third
\* check, which reported the payment failed
C29_Witness ==
    \E q, r \in PurchaseIds :
        /\ purchases[q].pc = "done" /\ purchases[q].result.error = "Payment timeout"
        /\ purchases[q].checks = 12
        /\ purchases[r].pc = "done"
        /\ purchases[r].result.error = "Payment was declined or failed"
        /\ purchases[r].checks = 3

\* ------------------------------------------------------------------ C30
\* the failures of a purchase whose payment failed, was not accepted by the
\* gateway, or was not seen successful in time
PaymentFailures ==
    {"Payment was declined or failed", "Payment request failed", "Payment timeout"}

\* C30: the grant of a purchase is committed only after a status check of its
\* reference reported successful, with the purchase's user and credits, and
\* once at most; a purchase that returns one of the payment failures has
\* granted nothing and returns without a change of balance or ledger
C30_Step ==
    /\ Len(sq_transactions') > Len(sq_transactions) =>
          \E q \in PurchaseIds :
             /\ sq_transactions' =
                   Append(sq_transactions,
                          CreditTransaction(purchases[q].user, purchases[q].credits_to_add,
                                            ReferenceOf(q), Purchase))
             /\ purchases[q].pc = "grant"
             /\ purchases[q].status = "successful"
             /\ payments[q].status = "successful"
             /\ sq_credits'[purchases[q].user] =
                   get_user_credits(purchases[q].user) + purchases[q].credits_to_add
    /\ \A q \in PurchaseIds :
          /\ Cardinality(RowsWith(sq_transactions', ReferenceOf(q))) <= 1
          /\ (purchases[q].pc # "done" /\ purchases'[q].pc = "done"
                /\ purchases'[q].result.error \in PaymentFailures) =>
                /\ ~purchases'[q].result.success
                /\ ReferenceOf(q) \notin TransactionIds(sq_transactions')
                /\ UNCHANGED <<sq_credits, sq_transactions>>

C30_GrantOnlyAfterSuccessfulCheck == [][C30_Step]_vars

\* one purchase was granted after its successful check, the other timed out
\* and left the balance at the first one's credits
C30_Witness ==
    \E q, r \in PurchaseIds :
        /\ purchases[q].pc = "done" /\ purchases[q].result.success
        /\ ReferenceOf(q) \in TransactionIds(sq_transactions)
        /\ purchases[r].pc = "done" /\ purchases[r].result.error = "Payment timeout"
        /\ payments[r].status = "successful"
        /\ ReferenceOf(r) \notin TransactionIds(sq_transactions)
        /\ get_user_credits("u1") = purchases[q].credits_to_add

\* ------------------------------------------------------------------ C31
\* C31: the store that purchases credit and the store that the key gate, the
\* request gate and the debits read agree on every account's balance: what
\* can_generate_api_key reads is what get_user_credits of the payment side
\* returns, so a purchase of N credits raises it by N
C31_StoresAgree ==
    \A u \in UserIds :
        can_generate_api_key(u).current_credits = get_user_credits(u)

\* ------------------------------------------------------------------ C32
\* C32: LocalCreditManager.deduct_credits succeeds whenever the account exists
\* and its balance covers the request, whatever other debits were committed in
\* the same clock second: the debit that commits against a sufficient balance
\* finds its generated ledger reference unused and returns success.
C32_Step ==
    \A p \in DOMAIN calls :
        (/\ calls[p].op = "deduct_credits" /\ calls[p].pc = "commit"
         /\ calls'[p].pc = "done"
         /\ calls[p].user \in UserIds
         /\ credit_balance[calls[p].user] >= calls[p].credits) =>
            /\ UsageTransactionId(clock) \notin TransactionIds(credit_transactions)
            /\ calls'[p].result.success

C32_SufficientDebitSucceeds == [][C32_Step]_vars

\* ------------------------------------------------------------------ C33
\* the ledger rows of an account
RowsOfAccount(u, rows) == SelectSeq(rows, LAMBDA row : row.user_id = u)

\* the credit manager call that finishes in this step finishes on behalf of account u
FinishesFor(p, u) ==
    /\ calls[p].op \in LocalOps \cup CMOps
    /\ calls[p].pc \notin {"idle", "done"}
    /\ calls'[p].pc = "done"
    /\ calls[p].user = u

\* the failure of the finishing call p is explained by its own account or its
\* own arguments: the balance, a reference the caller passed that is recorded
\* already, a ledger row of the same account, a writer of the same account
FailsOnItsOwn(p) ==
    \/ calls'[p].result.error = "insufficient_credits"
    \/ /\ calls[p].op = "add_credits"
       /\ calls[p].txid \in TransactionIds(credit_transactions)
    \/ /\ calls[p].op = "deduct_credits"
       /\ UsageTransactionId(clock) \in
             TransactionIds(RowsOfAccount(calls[p].user, credit_transactions))
    \/ /\ calls[p].op = "cm_add_credits"
       /\ \E q \in sq_reserved : calls[q].user = calls[p].user

\* C33: a grant or debit on account A, whether it succeeds, is a duplicate or
\* is rejected, leaves the balance and the ledger rows of every other account
\* B unchanged, and cannot make a concurrent or later operation on B fail:
\* only a call of B changes B's balance or rows, and a call that fails does so
\* because of its own account or arguments.
C33_Step ==
    /\ \A b \in UserIds :
          (\/ credit_balance'[b] # credit_balance[b]
           \/ get_user_credits(b)' # get_user_credits(b)
           \/ RowsOfAccount(b, credit_transactions') # RowsOfAccount(b, credit_transactions)
           \/ RowsOfAccount(b, sq_transactions') # RowsOfAccount(b, sq_transactions)) =>
              \E p \in DOMAIN calls : FinishesFor(p, b)
    /\ \A p \in DOMAIN calls, b \in UserIds :
          (FinishesFor(p, b) /\ ~calls'[p].result.success) => FailsOnItsOwn(p)

C33_OtherAccountsUntouched == [][C33_Step]_vars

\* ------------------------------------------------------------------ C34
\* C34: can_generate_api_key treats a request as a first-key request exactly
\* when the account has no key that is not revoked, so an account that revoked
\* all its keys is held to the first-key threshold of 5000 again.
C34_Step ==
    \A p \in DOMAIN calls :
        KeyDecision(p) =>
            LET check == calls'[p].result
                u == calls'[p].user
                all_revoked == \A k \in KeysOf(u) : api_keys[k].revoked
            IN /\ check.is_first_key = all_revoked
               /\ (KeysOf(u) # {} /\ all_revoked) =>
                     /\ check.required_credits = minimum_credits_for_api_key
                     /\ check.can_generate =
                           (credit_balance[u] >= minimum_credits_for_api_key)

C35_MismatchedUnitKind ==
    LET pricing == PRICING(cost_breakdown.service_type, cost_breakdown.provider) IN
    (/\ cost_breakdown.fn = "calculate_service_cost"
     /\ pricing.key # "none"
     /\ UnitOf(pricing.key) # cost_breakdown.unit_type)
    => cost_breakdown.credits_used =
          (IF cost_breakdown.units >= 1 THEN cost_breakdown.units ELSE 1)

\* 250 "units" of cartesia, whose rate is per character, were priced at 250
\* credits (its rate gives 1 credit, the default rate 2)
C35_Witness ==
    /\ cost_breakdown.fn = "calculate_service_cost"
    /\ cost_breakdown.service_type = "voice_tts"
    /\ cost_breakdown.provider = "cartesia"
    /\ cost_breakdown.unit_type = "units"
    /\ cost_breakdown.units = 250
    /\ cost_breakdown.credits_used = 250

\* ------------------------------------------------------------------ C36
\* the purchase q was asked for less than the minimum
BelowMinimum(q) == purchases[q].pc # "idle" /\ purchases[q].amount < minimum_purchase

\* C36: a purchase below the minimum amount is rejected before any payment
\* request is sent: the call returns a failure at once, no payment is
\* initiated at the gateway, no credits are granted under its reference and
\* the balances are unchanged.
C36_Step ==
    \A q \in PurchaseIds :
        (purchases[q].pc = "idle" /\ BelowMinimum(q)') =>
            /\ purchases'[q].pc = "done"
            /\ ~purchases'[q].result.success
            /\ UNCHANGED <<payments, pgVars, sqVars>>

C36_Rejected ==
    \A q \in PurchaseIds :
        BelowMinimum(q) =>
            /\ purchases[q].pc = "done" /\ ~purchases[q].result.success
            /\ payments[q].status = "none"
            /\ ReferenceOf(q) \notin TransactionIds(sq_transactions)
            /\ calls[q].pc = "idle"

C36_BelowMinimumRejectedUnsent == [][C36_Step]_vars /\ []C36_Rejected

\* a purchase of 5 was paid and granted; a purchase of 4 was then rejected for
\* the minimum and the balance still is the 5000 of the first
C36_Witness ==
    \E q \in PurchaseIds, r \in PurchaseIds :
        /\ BelowMinimum(q)
        /\ purchases[q].result.error = "Minimum purchase"
        /\ r < q
        /\ purchases[r].pc = "done" /\ purchases[r].result.success
        /\ get_user_credits("u1") = minimum_purchase * credit_rate

\* ------------------------------------------------------------------ C37
\* the allowed free-tier requests of the IP in the 60 seconds from time t on
AllowedInWindow(ip, t) ==
    {i \in 1..Len(free_allowed) :
        /\ free_allowed[i].ip = ip
        /\ free_allowed[i].at >= t /\ free_allowed[i].at <= t + RATE_WINDOW}

\* the allowed free-tier requests of the IP since its latest daily reset
AllowedSinceReset(ip) ==
    {i \in 1..Len(free_allowed) :
        /\ free_allowed[i].ip = ip
        /\ free_allowed[i].at >= Get(last_reset, ip, clock)}

\* at most 30 allowed requests of an IP in any window of 60 seconds and at
\* most 50 between two consecutive daily resets
C37_Limits ==
    \A ip \in IPs :
        /\ \A i \in 1..Len(free_allowed) :
              Cardinality(AllowedInWindow(ip, free_allowed[i].at)) <= RATE_LIMIT
        /\ Cardinality(AllowedSinceReset(ip)) <= DAILY_FREE_LIMIT

\* the step is the answer of an is_allowed call
Answered == limiter_result'.seq = limiter_result.seq + 1

\* a request with an API key is allowed and reads and changes no counter
C37_Paid ==
    (Answered /\ limiter_result'.tier = "paid") =>
        /\ limiter_result'.allowed
        /\ UNCHANGED <<daily_usage, monthly_usage, last_reset, request_times>>

\* the usage counters of the IP as get_usage_stats reports them
CountersOf(ip) == <<Get(daily_usage, ip, 0), Get(monthly_usage, ip, 0)>>

\* C37 (as stated): for a caller without an API key the limiter allows at most
\* 30 requests of one IP within any 60-second window and at most 50 between
\* two consecutive daily resets; a denied request leaves every counter
\* unchanged; a request with an API key is always allowed and neither reads
\* nor changes any counter.
C37_DeniedStep ==
    (Answered /\ ~limiter_result'.allowed) =>
        \A ip \in IPs : CountersOf(ip)' = CountersOf(ip)

C37_LimitsAndDeniedUntouched ==
    []C37_Limits /\ [][C37_Paid]_vars /\ [][C37_DeniedStep]_vars

\* C37 (amended): the same limits and the same freedom of requests with an
\* API key; a denied request counts nowhere: it raises no counter and records
\* no time. It does apply the daily reset that is due (the daily counter
\* becomes 0 and last_reset the present time) and drops the times that left
\* the window; the counters of other IPs are unchanged.
C37_DeniedCountsNowhere ==
    (Answered /\ ~limiter_result'.allowed) =>
        \A ip \in IPs :
            LET due == Days(clock, Get(last_reset, ip, clock)) >= 1 IN
            IF ip = limiter_result'.ip
            THEN /\ Get(daily_usage, ip, 0)' =
                        (IF due THEN 0 ELSE Get(daily_usage, ip, 0))
                 /\ Get(last_reset, ip, clock)' =
                        (IF due THEN clock ELSE Get(last_reset, ip, clock))
                 /\ Get(monthly_usage, ip, 0)' = Get(monthly_usage, ip, 0)
                 /\ Get(request_times, ip, <<>>)' =
                        SelectSeq(Get(request_times, ip, <<>>),
                                  LAMBDA at : clock - at <= RATE_WINDOW)
                 /\ UNCHANGED free_allowed
            ELSE /\ CountersOf(ip)' = CountersOf(ip)
                 /\ ip \in DOMAIN request_times => request_times'[ip] = request_times[ip]
                 /\ ip \in DOMAIN last_reset => last_reset'[ip] = last_reset[ip]

C37_LimitsAndDeniedCountsNowhere ==
    []C37_Limits /\ [][C37_Paid]_vars /\ [][C37_DeniedCountsNowhere]_vars

\* the thirtieth request of a second was allowed and a request of the same
\* IP within the minute was denied for the rate
C37_Witness ==
    /\ Cardinality(AllowedInWindow("ip1", 0)) = RATE_LIMIT
    /\ limiter_result.ip = "ip1"
    /\ limiter_result.limit_type = "rate_limit"
    /\ ~limiter_result.allowed
    /\ Get(daily_usage, "ip1", 0) = RATE_LIMIT

\* ------------------------------------------------------------------ C38
\* C38: the monthly usage counter of an IP is reset to 0 once 30 days have
\* passed since its last reset, so an IP that exhausted the monthly limit of
\* 1000 is allowed again: a free-tier request that arrives 30 days or more
\* after the IP's last reset starts the monthly count anew and is not denied
\* for the monthly limit.
C38_Step ==
    \A ip \in DOMAIN last_reset :
        (/\ Answered
         /\ limiter_result'.tier = "free" /\ limiter_result'.ip = ip
         /\ Days(clock, last_reset[ip]) >= 30) =>
            /\ limiter_result'.limit_type # "monthly_limit"
            /\ monthly_usage'[ip] = (IF limiter_result'.allowed THEN 1 ELSE 0)

C38_MonthlyCounterReset == [][C38_Step]_vars

\* ------------------------------------------------------------------ C39
\* a send-message or delete handler is at a statement that uses the registries
Observing(h) ==
    /\ handlers[h].op \in {"send_message", "delete_session"}
    /\ handlers[h].pc \in {"put", "config", "del_session", "del_queue"}

\* whenever a handler looks, every session id of active_sessions has its queue
\* in message_queues
C39_Registered ==
    (\E h \in HandlerIds : Observing(h)) =>
        \A session_id \in active_sessions : session_id \in DOMAIN message_queues

\* a delete request answered with success has removed the id from both
C39_DeleteStep ==
    \A h \in HandlerIds :
        (/\ handlers[h].op = "delete_session" /\ handlers[h].pc # "done"
         /\ handlers'[h].pc = "done" /\ handlers'[h].status = 200) =>
            /\ handlers[h].session_id \notin active_sessions'
            /\ handlers[h].session_id \notin DOMAIN message_queues'

\* C39: in every state a request handler can observe, under concurrent create,
\* send-message and delete requests, every session id in active_sessions has
\* a message queue in message_queues, and deleting a session removes it from
\* both.
C39_SessionsHaveQueues == []C39_Registered /\ [][C39_DeleteStep]_vars
====
